---- MODULE Spec2Model ----
(***************************************************************************)
(* Model of libplist-posix: the plist node tree (plist.c) and the          *)
(* incremental text parser (plist_txt.c).                                  *)
(*                                                                         *)
(* Nodes live in a heap indexed 1..MaxNodes; 0 is the NULL pointer.  A     *)
(* node that has been passed to free() keeps its last contents and is      *)
(* marked not live, so that a later read through a dangling pointer is     *)
(* visible.                                                                *)
(***************************************************************************)
EXTENDS Integers, Sequences, FiniteSets, TLC

\* ------------------------------------------------------------------ bounds
MaxNodes == 10     \* heap capacity: malloc returns NULL beyond it
OobLen   == 2      \* bytes of foreign memory modelled after a chunk
MaxCalls == 2      \* parse calls on one document are counted up to here
MaxTree  == 3      \* constructor calls are made while fewer nodes exist
MaxOps   == 3      \* tree calls made before the caller starts again

\* ------------------------------------------------------- program constants
CHUNK_EXTENDSZ == 32
NULL == 0

\* ------------------------------------------------------------------- bytes
\* Bytes are their ASCII codes.  Documents are written as sequences of
\* one-character strings and converted with B.
DigitSeq == <<"0","1","2","3","4","5","6","7","8","9">>
LowerSeq == <<"a","b","c","d","e","f","g","h","i","j","k","l","m",
              "n","o","p","q","r","s","t","u","v","w","x","y","z">>
UpperSeq == <<"A","B","C","D","E","F","G","H","I","J","K","L","M",
              "N","O","P","Q","R","S","T","U","V","W","X","Y","Z">>

Punct ==
    <<"NUL", "BS", "TAB", "LF", "FF", "CR", " ", "!", "\"", "(", ")", "*",
      "+", ",", "-", ".", "/", ":", ";", "<", ">", "?", "\\", "{", "}">>
PunctCode ==
    <<0, 8, 9, 10, 12, 13, 32, 33, 34, 40, 41, 42,
      43, 44, 45, 46, 47, 58, 59, 60, 62, 63, 92, 123, 125>>

IndexIn(seq, c) == CHOOSE i \in 1..Len(seq) : seq[i] = c
Range(seq) == {seq[i] : i \in 1..Len(seq)}

\* the code of each character the documents and the parser use
Ascii ==
    [c \in Range(DigitSeq) \cup Range(UpperSeq) \cup Range(LowerSeq)
           \cup Range(Punct) |->
        IF c \in Range(DigitSeq) THEN 47 + IndexIn(DigitSeq, c)
        ELSE IF c \in Range(UpperSeq) THEN 64 + IndexIn(UpperSeq, c)
        ELSE IF c \in Range(LowerSeq) THEN 96 + IndexIn(LowerSeq, c)
        ELSE PunctCode[IndexIn(Punct, c)]]

\* a character literal of the C source: Ord("{") is '{'
Ord(c) == Ascii[c]

B(seq) == [i \in 1..Len(seq) |-> Ord(seq[i])]

\* <ctype.h> in the C locale
isdigit(c) == c >= Ord("0") /\ c <= Ord("9")
isblank(c) == c = Ord(" ") \/ c = Ord("TAB")
isspace(c) == c = Ord(" ") \/ (c >= Ord("TAB") /\ c <= Ord("CR"))
tolower(c) == IF c >= Ord("A") /\ c <= Ord("Z") THEN c + (Ord("a") - Ord("A")) ELSE c

\* a C string: the bytes before the first NUL
RECURSIVE CStr(_)
CStr(s) == IF s = <<>> \/ Head(s) = Ord("NUL") THEN <<>>
           ELSE <<Head(s)>> \o CStr(Tail(s))

\* Bind(x, F) is F(x): it names a value that is used more than once
Bind(x, F(_)) == F(x)

\* ------------------------------------------------------------ node heap
\* struct plist_s; the union members are separate fields, except that
\* p_string.ps_str and p_key.pk_name share storage (both the first pointer
\* of the union), which the parser relies on.
NoTm == <<0, 0, 0, 0, 0, 0, 0>>
NoReal == <<0, 0, 0>>
BlankNode ==
    [live |-> FALSE, p_elem |-> "UNKNOWN", p_parent |-> NULL,
     tqe_next |-> NULL, tqe_prev |-> <<NULL, "none">>,
     tqh_first |-> NULL, tqh_last |-> <<NULL, "none">>,
     num |-> 0, str |-> <<>>, pk_value |-> NULL,
     pi_int |-> 0, pb_bool |-> FALSE, pr_double |-> NoReal,
     pd_data |-> <<>>, pd_tm |-> NoTm]

\* flt: a call has dereferenced NULL, failed an assert or does not return
EmptyHeap ==
    [n |-> [i \in 1..MaxNodes |-> BlankNode], brk |-> 0, flt |-> FALSE]

\* malloc + memset of one node; NULL when the heap is exhausted
CanAlloc(M) == M.brk < MaxNodes
AllocId(M) == M.brk + 1
AllocNode(M, rec) ==
    [M EXCEPT !.n[AllocId(M)] = rec, !.brk = AllocId(M)]

Fresh(elem) == [BlankNode EXCEPT !.live = TRUE, !.p_elem = elem]

\* Each constructor yields [M, id, err]; id = NULL on failure.
NewResult(M, rec) ==
    IF CanAlloc(M) THEN [M |-> AllocNode(M, rec), id |-> AllocId(M), err |-> "OK"]
    ELSE [M |-> M, id |-> NULL, err |-> "ENOMEM"]

\* ------------------------------------------------- sys/queue.h, TAILQ
\* A list head is the pair tqh_first, tqh_last of a Dict or an Array; an
\* entry is the pair tqe_next, tqe_prev of a node.  tqh_last and tqe_prev
\* point at a pointer: <<id, "first">> is &id->tqh_first, <<id, "next">> is
\* &id->tqe_next.  StackHead is the list head local to the running call.
StackHead == MaxNodes + 1

StoreAt(n, p, v) ==
    IF p[1] \notin DOMAIN n THEN n
    ELSE IF p[2] = "first" THEN [n EXCEPT ![p[1]].tqh_first = v]
    ELSE IF p[2] = "next" THEN [n EXCEPT ![p[1]].tqe_next = v]
    ELSE n

TAILQ_INIT(n, head) ==
    [n EXCEPT ![head].tqh_first = NULL, ![head].tqh_last = <<head, "first">>]

TAILQ_INSERT_TAIL(n, head, elm) ==
    [StoreAt([n EXCEPT ![elm].tqe_next = NULL,
                       ![elm].tqe_prev = n[head].tqh_last],
             n[head].tqh_last, elm)
        EXCEPT ![head].tqh_last = <<elm, "next">>]

TAILQ_INSERT_HEAD(n, head, elm) ==
    IF n[head].tqh_first # NULL
    THEN [n EXCEPT ![elm].tqe_next = n[head].tqh_first,
                   ![n[head].tqh_first].tqe_prev = <<elm, "next">>,
                   ![head].tqh_first = elm,
                   ![elm].tqe_prev = <<head, "first">>]
    ELSE [n EXCEPT ![elm].tqe_next = NULL,
                   ![head].tqh_last = <<elm, "next">>,
                   ![head].tqh_first = elm,
                   ![elm].tqe_prev = <<head, "first">>]

TAILQ_INSERT_BEFORE(n, listelm, elm) ==
    [StoreAt([n EXCEPT ![elm].tqe_prev = n[listelm].tqe_prev,
                       ![elm].tqe_next = listelm],
             n[listelm].tqe_prev, elm)
        EXCEPT ![listelm].tqe_prev = <<elm, "next">>]

TAILQ_REMOVE(n, head, elm) ==
    StoreAt(IF n[elm].tqe_next # NULL
            THEN [n EXCEPT ![n[elm].tqe_next].tqe_prev = n[elm].tqe_prev]
            ELSE [n EXCEPT ![head].tqh_last = n[elm].tqe_prev],
            n[elm].tqe_prev, n[elm].tqe_next)

\* the cells met from id along tqe_next, at most k of them
RECURSIVE Walk(_, _, _)
Walk(n, id, k) ==
    IF id = NULL \/ k = 0 THEN <<>>
    ELSE <<id>> \o Walk(n, n[id].tqe_next, k - 1)

\* what TAILQ_FOREACH visits in the list of a Dict or an Array; a list
\* that has more than MaxNodes cells is a cycle
Kids(M, id) == Walk(M.n, M.n[id].tqh_first, MaxNodes)
Endless(M, id) == Len(Walk(M.n, M.n[id].tqh_first, MaxNodes + 1)) > MaxNodes

plist_dict_new(M) ==
    NewResult(M, [Fresh("DICT") EXCEPT !.tqh_last = <<AllocId(M), "first">>])
plist_array_new(M) ==
    NewResult(M, [Fresh("ARRAY") EXCEPT !.tqh_last = <<AllocId(M), "first">>])
plist_data_new(M, bytes) ==
    NewResult(M, [Fresh("DATA") EXCEPT !.pd_data = bytes])
plist_date_new(M, tm) == NewResult(M, [Fresh("DATE") EXCEPT !.pd_tm = tm])
plist_string_new(M, s) ==
    NewResult(M, [Fresh("STRING") EXCEPT !.str = CStr(s)])
\* "%.*s": at most cplen bytes, stopping at a NUL
plist_format_new(M, s) == plist_string_new(M, s)

\* A long long is kept as [neg, mag]: the sign and the magnitude in four
\* limbs of 16 bits, lowest first (the checker's integers have 32 bits);
\* zero has neg = FALSE.  An int is an integer of the checker.
LLZero == [neg |-> FALSE, mag |-> <<0, 0, 0, 0>>]

\* plist_integer_new takes an int: the long long argument is converted to
\* 32 bits, which keeps the low 32 bits of the two's complement value.
ToInt32(v) ==
    IF ~v.neg
    THEN (IF v.mag[2] < 32768 THEN v.mag[2] ELSE v.mag[2] - 65536) * 65536
         + v.mag[1]
    ELSE IF v.mag[2] < 32768 \/ (v.mag[2] = 32768 /\ v.mag[1] = 0)
    THEN (-v.mag[2]) * 65536 - v.mag[1]
    ELSE (65535 - v.mag[2]) * 65536 + (65536 - v.mag[1])
plist_integer_new(M, num) ==
    NewResult(M, [Fresh("INTEGER") EXCEPT !.pi_int = ToInt32(num)])
plist_real_new(M, d) == NewResult(M, [Fresh("REAL") EXCEPT !.pr_double = d])
plist_boolean_new(M, flag) ==
    NewResult(M, [Fresh("BOOLEAN") EXCEPT !.pb_bool = flag])

\* the list head of plist_free on the stack of the call
WithStack(n) ==
    [i \in 1..StackHead |->
        IF i = StackHead
        THEN [BlankNode EXCEPT !.tqh_last = <<StackHead, "first">>]
        ELSE n[i]]
NoStack(n) == [i \in 1..MaxNodes |-> n[i]]

\* for (;;) { first; numkeys--; TAILQ_REMOVE; TAILQ_INSERT_TAIL(&pfree) }
\* with k rounds left; a list that never empties is reported by hang
RECURSIVE FreeKids(_, _, _)
FreeKids(r, p, k) ==
    IF r.n[p].tqh_first = NULL THEN r
    ELSE IF k = 0 THEN [r EXCEPT !.hang = TRUE]
    ELSE FreeKids(
            [r EXCEPT !.n = TAILQ_INSERT_TAIL(
                               TAILQ_REMOVE([r.n EXCEPT ![p].num = @ - 1],
                                            p, r.n[p].tqh_first),
                               StackHead, r.n[p].tqh_first)],
            p, k - 1)

\* the switch of plist_free on the node p taken from the worklist: its
\* children join the worklist; assert(numkeys == 0) is reported by hang
FreeNode(r, p) ==
    IF r.n[p].p_elem \in {"DICT", "ARRAY"}
    THEN Bind(FreeKids(r, p, MaxNodes),
              LAMBDA q : IF q.n[p].num # 0 THEN [q EXCEPT !.hang = TRUE]
                         ELSE q)
    ELSE IF r.n[p].p_elem = "KEY" /\ r.n[p].pk_value # NULL
    THEN [r EXCEPT !.n = [TAILQ_INSERT_TAIL(r.n, StackHead, r.n[p].pk_value)
                             EXCEPT ![p].pk_value = NULL]]
    ELSE r

\* The worklist of plist_free: take the head, queue its children at the
\* tail, free it.  r is [n, hang]; k bounds the rounds.
RECURSIVE FreeWork(_, _)
FreeWork(r, k) ==
    IF r.hang \/ r.n[StackHead].tqh_first = NULL THEN r
    ELSE IF k = 0 THEN [r EXCEPT !.hang = TRUE]
    ELSE FreeWork(
            [FreeNode([r EXCEPT !.n = TAILQ_REMOVE(
                                         r.n, StackHead,
                                         r.n[StackHead].tqh_first)],
                      r.n[StackHead].tqh_first)
                EXCEPT !.n[r.n[StackHead].tqh_first].live = FALSE],
            k - 1)

\* the parent of plist gives it up: the count and the list of a Dict or
\* an Array, the value slot of a Key
Unparent(n, par, plist) ==
    IF n[par].p_elem \in {"DICT", "ARRAY"}
    THEN TAILQ_REMOVE([n EXCEPT ![par].num = @ - 1], par, plist)
    ELSE [n EXCEPT ![par].pk_value = NULL]

\* plist_free: unlink from the parent, then release the subtree.  A failed
\* assert and a loop that does not end set flt.
plist_free(M, plist) ==
    IF plist = NULL THEN M
    ELSE IF M.n[plist].p_parent # NULL
            /\ M.n[M.n[plist].p_parent].p_elem \notin {"DICT", "ARRAY", "KEY"}
    THEN M   \* syslog and return: nothing is released
    ELSE IF /\ M.n[plist].p_parent # NULL
            /\ IF M.n[M.n[plist].p_parent].p_elem = "KEY"
               THEN M.n[M.n[plist].p_parent].pk_value # plist
               ELSE M.n[M.n[plist].p_parent].num <= 0
    THEN [M EXCEPT !.flt = TRUE]
    ELSE Bind(FreeWork(
                 [n |-> TAILQ_INSERT_TAIL(
                           WithStack(IF M.n[plist].p_parent = NULL THEN M.n
                                     ELSE Unparent(M.n, M.n[plist].p_parent,
                                                   plist)),
                           StackHead, plist),
                  hang |-> FALSE],
                 MaxNodes + 1),
              LAMBDA r : [M EXCEPT !.n = NoStack(r.n),
                                   !.flt = M.flt \/ r.hang])

\* TAILQ_FOREACH with strcmp on pk_name: the first Key of the dict whose
\* name equals name, NULL when the list ends without one, Hang when the
\* list does not end
Hang == 0 - 1
FindKey(M, dict, name) ==
    Bind(Kids(M, dict),
         LAMBDA ks :
            IF \E i \in 1..Len(ks) : M.n[ks[i]].str = name
            THEN ks[CHOOSE i \in 1..Len(ks) :
                       /\ M.n[ks[i]].str = name
                       /\ \A j \in 1..(i - 1) : M.n[ks[j]].str # name]
            ELSE IF Endless(M, dict) THEN Hang
            ELSE NULL)

\* plist_dict_haskey; for a node that is not a Dict it returns EACCES
\* converted to bool, i.e. true
plist_dict_haskey(M, dict, name) ==
    IF dict = NULL THEN FALSE
    ELSE IF M.n[dict].p_elem # "DICT" THEN TRUE
    ELSE FindKey(M, dict, name) \notin {NULL, Hang}

\* plist_dict_set yields [M, err]
plist_dict_set(M, dict, name, value) ==
    IF dict = NULL \/ value = NULL THEN [M |-> M, err |-> "EINVAL"]
    ELSE IF M.n[dict].p_elem # "DICT" THEN [M |-> M, err |-> "EACCES"]
    ELSE IF M.n[value].p_parent # NULL THEN [M |-> M, err |-> "EPERM"]
    ELSE IF ~CanAlloc(M) THEN [M |-> M, err |-> "ENOMEM"]
    ELSE Bind(AllocNode(M, Fresh("UNKNOWN")), LAMBDA M1 :
         Bind(FindKey(M1, dict, name), LAMBDA old :
         Bind(IF old = Hang THEN [M1 EXCEPT !.flt = TRUE]
              ELSE plist_free(M1, old), LAMBDA M2 :
            [M |-> [M2 EXCEPT !.n = [TAILQ_INSERT_TAIL(
                                        [M2.n EXCEPT
                                            ![AllocId(M)].p_elem = "KEY",
                                            ![AllocId(M)].str = name,
                                            ![AllocId(M)].pk_value = value,
                                            ![value].p_parent = AllocId(M),
                                            ![dict].num = @ + 1],
                                        dict, AllocId(M))
                                     EXCEPT ![AllocId(M)].p_parent = dict]],
             err |-> "OK"])))

\* plist_array_append yields [M, err]
\* (an insertion at the head of the list instead of the tail)
plist_array_append_head(M, array, value) ==
    IF array = NULL \/ value = NULL THEN [M |-> M, err |-> "EINVAL"]
    ELSE IF M.n[array].p_elem # "ARRAY" THEN [M |-> M, err |-> "EACCES"]
    ELSE IF M.n[value].p_parent # NULL THEN [M |-> M, err |-> "EPERM"]
    ELSE [M |-> [M EXCEPT !.n = [TAILQ_INSERT_HEAD(
                                     [M.n EXCEPT ![array].num = @ + 1],
                                     array, value)
                                 EXCEPT ![value].p_parent = array]],
          err |-> "OK"]
plist_array_append(M, array, value) ==
    IF array = NULL \/ value = NULL THEN [M |-> M, err |-> "EINVAL"]
    ELSE IF M.n[array].p_elem # "ARRAY" THEN [M |-> M, err |-> "EACCES"]
    ELSE IF M.n[value].p_parent # NULL THEN [M |-> M, err |-> "EPERM"]
    ELSE [M |-> [M EXCEPT !.n = [TAILQ_INSERT_TAIL(
                                     [M.n EXCEPT ![array].num = @ + 1],
                                     array, value)
                                 EXCEPT ![value].p_parent = array]],
          err |-> "OK"]

\* ------------------------------------------- tree operations, part two
\* Each yields [M, err, out]: out is *plistpp, err "FAULT" a call that
\* does not return.
Ret(M, err, out) ==
    [M |-> M, err |-> IF M.flt THEN "FAULT" ELSE err, out |-> out]

\* plist_dict_pop: the Key itself is handed out
plist_dict_pop(M, dict, name) ==
    IF dict = NULL THEN Ret(M, "EINVAL", NULL)
    ELSE IF M.n[dict].p_elem # "DICT" THEN Ret(M, "EACCES", NULL)
    ELSE Bind(FindKey(M, dict, name), LAMBDA k :
            IF k = Hang THEN Ret([M EXCEPT !.flt = TRUE], "OK", NULL)
            ELSE IF k = NULL THEN Ret(M, "ENOENT", NULL)
            ELSE Ret([M EXCEPT !.n = [TAILQ_REMOVE(
                                         [M.n EXCEPT ![dict].num = @ - 1],
                                         dict, k)
                                      EXCEPT ![k].p_parent = NULL]],
                     "OK", k))

\* plist_dict_del: zero also when no Key has the name
plist_dict_del(M, dict, name) ==
    IF dict = NULL THEN Ret(M, "EINVAL", NULL)
    ELSE IF M.n[dict].p_elem # "DICT" THEN Ret(M, "EACCES", NULL)
    ELSE Bind(FindKey(M, dict, name), LAMBDA k :
            IF k = Hang THEN Ret([M EXCEPT !.flt = TRUE], "OK", NULL)
            ELSE Ret(plist_free(M, k), "OK", NULL))

\* the element that TAILQ_FOREACH reaches with i = loc, or NULL
ElemAt(M, array, loc) ==
    Bind(Walk(M.n, M.n[array].tqh_first, loc + 1),
         LAMBDA w : IF Len(w) = loc + 1 THEN w[loc + 1] ELSE NULL)

plist_array_insert(M, array, loc, value) ==
    IF array = NULL \/ value = NULL THEN Ret(M, "EINVAL", NULL)
    ELSE IF M.n[array].p_elem # "ARRAY" THEN Ret(M, "EACCES", NULL)
    ELSE IF loc < 0 \/ loc > M.n[array].num THEN Ret(M, "ERANGE", NULL)
    ELSE IF M.n[value].p_parent # NULL THEN Ret(M, "EPERM", NULL)
    ELSE IF loc = M.n[array].num
    THEN Ret([M EXCEPT !.n = [TAILQ_INSERT_TAIL(
                                 [M.n EXCEPT ![array].num = @ + 1],
                                 array, value)
                              EXCEPT ![value].p_parent = array]],
             "OK", NULL)
    ELSE Bind(ElemAt(M, array, loc), LAMBDA ptmp :
            IF ptmp = NULL THEN Ret([M EXCEPT !.flt = TRUE], "OK", NULL)
            ELSE Ret([M EXCEPT !.n = [TAILQ_INSERT_BEFORE(
                                         [M.n EXCEPT ![array].num = @ + 1],
                                         ptmp, value)
                                      EXCEPT ![value].p_parent = array]],
                     "OK", NULL))

plist_array_pop(M, array, loc) ==
    IF array = NULL THEN Ret(M, "EINVAL", NULL)
    ELSE IF M.n[array].p_elem # "ARRAY" THEN Ret(M, "EACCES", NULL)
    ELSE IF loc < 0 \/ loc >= M.n[array].num THEN Ret(M, "ERANGE", NULL)
    ELSE Bind(ElemAt(M, array, loc), LAMBDA ptmp :
            IF ptmp = NULL THEN Ret([M EXCEPT !.flt = TRUE], "OK", NULL)
            ELSE Ret([M EXCEPT !.n = [TAILQ_REMOVE(
                                         [M.n EXCEPT ![array].num = @ - 1],
                                         array, ptmp)
                                      EXCEPT ![ptmp].p_parent = NULL]],
                     "OK", ptmp))

plist_array_del(M, array, loc) ==
    IF array = NULL THEN Ret(M, "EINVAL", NULL)
    ELSE IF M.n[array].p_elem # "ARRAY" THEN Ret(M, "EACCES", NULL)
    ELSE IF loc < 0 \/ loc >= M.n[array].num THEN Ret(M, "ERANGE", NULL)
    ELSE Bind(ElemAt(M, array, loc), LAMBDA ptmp :
            IF ptmp = NULL THEN Ret([M EXCEPT !.flt = TRUE], "OK", NULL)
            ELSE Ret(plist_free(M, ptmp), "OK", NULL))

\* the switch of _plist_copyelem: a new node of the kind of stmp with its
\* payload; yields [M, id, err]
CopyOne(M, stmp) ==
    CASE M.n[stmp].p_elem = "DICT" -> plist_dict_new(M)
      [] M.n[stmp].p_elem = "ARRAY" -> plist_array_new(M)
      [] M.n[stmp].p_elem = "DATA" -> plist_data_new(M, M.n[stmp].pd_data)
      [] M.n[stmp].p_elem = "DATE" -> plist_date_new(M, M.n[stmp].pd_tm)
      [] M.n[stmp].p_elem = "STRING" -> plist_string_new(M, M.n[stmp].str)
      [] M.n[stmp].p_elem = "INTEGER" ->
            NewResult(M, [Fresh("INTEGER") EXCEPT
                             !.pi_int = M.n[stmp].pi_int])
      [] M.n[stmp].p_elem = "REAL" -> plist_real_new(M, M.n[stmp].pr_double)
      [] M.n[stmp].p_elem = "BOOLEAN" ->
            plist_boolean_new(M, M.n[stmp].pb_bool)
      [] OTHER -> [M |-> M, id |-> NULL, err |-> "EACCES"]

\* (a CopyKey that leaves the name out)
CopyKeyUnnamed(M, s, r) ==
    IF ~CanAlloc(r.M) THEN Ret(plist_free(r.M, r.id), "ENOMEM", NULL)
    ELSE Ret([AllocNode(r.M, [Fresh("KEY") EXCEPT !.pk_value = r.id])
                 EXCEPT !.n[r.id].p_parent = AllocId(r.M)],
             "OK", AllocId(r.M))

\* the Key made for the Key s around the copy r of its value
CopyKey(M, s, r) ==
    IF ~CanAlloc(r.M) THEN Ret(plist_free(r.M, r.id), "ENOMEM", NULL)
    ELSE Ret([AllocNode(r.M, [Fresh("KEY") EXCEPT !.str = M.n[s].str,
                                                  !.pk_value = r.id])
                 EXCEPT !.n[r.id].p_parent = AllocId(r.M)],
             "OK", AllocId(r.M))

\* _plist_copyelem yields [M, err, out]: one new node for s, or for a Key
\* the new Key holding the new node for its value.  A Key without a value
\* is a NULL dereference.
_plist_copyelem(M, s) ==
    IF M.n[s].p_elem = "KEY" /\ M.n[s].pk_value = NULL
    THEN Ret([M EXCEPT !.flt = TRUE], "OK", NULL)
    ELSE Bind(CopyOne(M, IF M.n[s].p_elem = "KEY" THEN M.n[s].pk_value
                         ELSE s),
              LAMBDA r :
                 IF r.err # "OK" THEN Ret(M, r.err, NULL)
                 ELSE IF M.n[s].p_elem # "KEY" THEN Ret(r.M, "OK", r.id)
                 ELSE CopyKey(M, s, r))

\* the "attempt to ascend" loop of plist_copy, with k rounds left; yields
\* [pnext, prev, flt]
RECURSIVE CopyAscend(_, _, _, _, _)
CopyAscend(M, src, pcur, prev, k) ==
    IF pcur = src \/ M.n[pcur].p_parent = NULL
    THEN [pnext |-> NULL, prev |-> prev, flt |-> FALSE]
    ELSE IF M.n[M.n[pcur].p_parent].p_elem \notin {"DICT", "KEY", "ARRAY"}
    THEN [pnext |-> NULL, prev |-> prev, flt |-> FALSE]
    ELSE IF k = 0 \/ prev = NULL
    THEN [pnext |-> NULL, prev |-> prev, flt |-> TRUE]
    ELSE IF M.n[M.n[pcur].p_parent].p_elem = "DICT"
    THEN CopyAscend(M, src, M.n[pcur].p_parent, M.n[prev].p_parent, k - 1)
    ELSE IF M.n[M.n[pcur].p_parent].p_elem = "KEY"
    THEN IF M.n[M.n[pcur].p_parent].tqe_next # NULL
         THEN [pnext |-> M.n[M.n[pcur].p_parent].tqe_next,
               prev |-> M.n[prev].p_parent, flt |-> FALSE]
         ELSE CopyAscend(M, src, M.n[pcur].p_parent, M.n[prev].p_parent,
                         k - 1)
    ELSE IF M.n[pcur].tqe_next # NULL
    THEN [pnext |-> M.n[pcur].tqe_next, prev |-> M.n[prev].p_parent,
          flt |-> FALSE]
    ELSE CopyAscend(M, src, M.n[pcur].p_parent, M.n[prev].p_parent, k - 1)

\* the new node cur joins the list of the copy frontier: prev itself, or
\* for a Key the parent of prev
CopyInto(M, to, cur) ==
    IF to = NULL THEN [M EXCEPT !.flt = TRUE]
    ELSE [M EXCEPT !.n = TAILQ_INSERT_TAIL(
                            [M.n EXCEPT ![cur].p_parent = to,
                                        ![to].num = @ + 1],
                            to, cur)]
CopyAttach(M, prev, cur) ==
    IF prev = NULL THEN M
    ELSE IF M.n[prev].p_elem = "KEY"
    THEN CopyInto(M, M.n[prev].p_parent, cur)
    ELSE IF M.n[prev].p_elem \in {"DICT", "ARRAY"} THEN CopyInto(M, prev, cur)
    ELSE M

\* through a Key to its value
Thru(M, id) == IF M.n[id].p_elem = "KEY" THEN M.n[id].pk_value ELSE id

\* one round of the for loop of plist_copy, pcur not NULL
RECURSIVE CopyLoop(_, _, _, _, _)
\* after the attach: descend to the first child, or ascend
CopyStep(M1, src, pcur, cur, dst1) ==
    IF M1.flt THEN Ret(M1, "OK", NULL)
    ELSE IF /\ M1.n[Thru(M1, pcur)].p_elem \in {"DICT", "ARRAY"}
            /\ M1.n[Thru(M1, pcur)].tqh_first # NULL
    THEN CopyLoop(M1, src, M1.n[Thru(M1, pcur)].tqh_first, Thru(M1, cur),
                  dst1)
    ELSE Bind(CopyAscend(M1, src, Thru(M1, pcur), Thru(M1, cur), MaxNodes),
              LAMBDA a :
                 IF a.flt THEN Ret([M1 EXCEPT !.flt = TRUE], "OK", NULL)
                 ELSE IF a.pnext = NULL THEN Ret(M1, "OK", dst1)
                 ELSE CopyLoop(M1, src, a.pnext, a.prev, dst1))
CopyLoop(M, src, pcur, prev, dst) ==
    Bind(_plist_copyelem(M, pcur), LAMBDA r :
       IF r.err = "FAULT" THEN Ret(r.M, "OK", NULL)
       ELSE IF r.err # "OK" THEN Ret(plist_free(r.M, dst), r.err, NULL)
       ELSE CopyStep(CopyAttach(r.M, prev, r.out), src, pcur, r.out,
                     IF dst = NULL THEN r.out ELSE dst))

plist_copy(M, src) ==
    IF src = NULL THEN Ret(M, "EINVAL", NULL)
    ELSE CopyLoop(M, src, src, NULL, NULL)

\* the staging list of plist_dict_update: copies of the Keys in srcs, in
\* order; yields [M, err, out] with out the sequence of copies made
RECURSIVE Stage(_, _, _, _)
Stage(M, srcs, done, keysonly) ==
    IF srcs = <<>> THEN Ret(M, "OK", done)
    ELSE IF keysonly /\ M.n[Head(srcs)].p_elem # "KEY"
    THEN Ret(M, "EPERM", done)
    ELSE Bind(plist_copy(M, Head(srcs)), LAMBDA r :
            IF r.err # "OK" THEN Ret(r.M, r.err, done)
            ELSE Stage(r.M, Tail(srcs), Append(done, r.out), keysonly))

\* while (pcopy = TAILQ_FIRST(&plist)): del the name, count, insert
RECURSIVE Merge(_, _, _)
Merge(M, dict, copies) ==
    IF copies = <<>> \/ M.flt THEN M
    ELSE Bind(plist_dict_del(M, dict, M.n[Head(copies)].str).M, LAMBDA M1 :
            Merge([M1 EXCEPT !.n = TAILQ_INSERT_TAIL(
                                      [M1.n EXCEPT ![dict].num = @ + 1],
                                      dict, Head(copies))],
                  dict, Tail(copies)))

\* bail: the staged copies are released
RECURSIVE Unstage(_, _)
Unstage(M, copies) ==
    IF copies = <<>> THEN M
    ELSE Unstage(plist_free(M, Head(copies)), Tail(copies))

plist_dict_update(M, dict, other) ==
    IF dict = NULL \/ other = NULL THEN Ret(M, "EINVAL", NULL)
    ELSE IF M.n[dict].p_elem # "DICT" THEN Ret(M, "EACCES", NULL)
    ELSE IF M.n[other].p_elem \notin {"DICT", "KEY", "ARRAY"}
    THEN Ret(M, "EPERM", NULL)
    ELSE IF M.n[other].p_elem # "KEY" /\ Endless(M, other)
    THEN Ret([M EXCEPT !.flt = TRUE], "OK", NULL)
    ELSE Bind(Stage(M, IF M.n[other].p_elem = "KEY" THEN <<other>>
                       ELSE Kids(M, other),
                    <<>>, M.n[other].p_elem = "ARRAY"),
              LAMBDA r :
                 IF r.err = "FAULT" THEN Ret(r.M, "OK", NULL)
                 ELSE IF r.err # "OK"
                 THEN Ret(Unstage(r.M, r.out), r.err, NULL)
                 ELSE Ret(Merge(r.M, dict, r.out), "OK", NULL))

\* plist_first yields [out, pi]: the first cell of the list of a Dict or an
\* Array and the iterator [pi_elem, pi_opaque] set for plist_next; for any
\* other node NULL, the iterator untouched
plist_first(M, plist, pi) ==
    IF plist = NULL THEN [out |-> NULL, pi |-> pi]
    ELSE IF M.n[plist].p_elem \in {"DICT", "ARRAY"}
    THEN [out |-> M.n[plist].tqh_first,
          pi |-> [pi_elem |-> M.n[plist].p_elem,
                  pi_opaque |-> IF M.n[plist].tqh_first = NULL THEN NULL
                                ELSE M.n[M.n[plist].tqh_first].tqe_next]]
    ELSE [out |-> NULL, pi |-> pi]

\* plist_next yields [out, pi, flt]: the cell kept in the iterator, which
\* then moves on; flt is a failed assert on the cell's parent
plist_next(M, pi) ==
    IF pi.pi_opaque = NULL THEN [out |-> NULL, pi |-> pi, flt |-> FALSE]
    ELSE IF \/ M.n[pi.pi_opaque].p_parent = NULL
            \/ M.n[M.n[pi.pi_opaque].p_parent].p_elem # pi.pi_elem
    THEN [out |-> NULL, pi |-> pi, flt |-> TRUE]
    ELSE IF pi.pi_elem \in {"DICT", "ARRAY"}
    THEN [out |-> pi.pi_opaque,
          pi |-> [pi EXCEPT !.pi_opaque = M.n[pi.pi_opaque].tqe_next],
          flt |-> FALSE]
    ELSE [out |-> NULL, pi |-> pi, flt |-> FALSE]

\* PLIST_FOREACH with an empty body: r is what the last plist_first or
\* plist_next gave, acc the nodes handed to the body so far, k the rounds
\* left; yields [seq, flt], flt also for a loop that does not end
RECURSIVE ForeachFrom(_, _, _, _)
ForeachFrom(M, r, acc, k) ==
    IF r.out = NULL THEN [seq |-> acc, flt |-> FALSE]
    ELSE IF k = 0 THEN [seq |-> acc, flt |-> TRUE]
    ELSE Bind(plist_next(M, r.pi), LAMBDA q :
            IF q.flt THEN [seq |-> Append(acc, r.out), flt |-> TRUE]
            ELSE ForeachFrom(M, q, Append(acc, r.out), k - 1))
PLIST_FOREACH(M, plist) ==
    ForeachFrom(M, plist_first(M, plist,
                               [pi_elem |-> "UNKNOWN", pi_opaque |-> NULL]),
                <<>>, MaxNodes)

\* ------------------------------------------------- libc conversions
\* s[i], or NUL past the end (every text handed to libc is NUL terminated)
At0(s, i) == IF i >= 1 /\ i <= Len(s) THEN s[i] ELSE Ord("NUL")

isxdigit(c) == isdigit(c) \/ (tolower(c) >= Ord("a") /\ tolower(c) <= Ord("f"))
XDigitVal(c) == IF isdigit(c) THEN c - Ord("0") ELSE tolower(c) - Ord("a") + 10

\* The model's integers are those of the checker (32 bits); a digit run of
\* strtod or strptime is accumulated exactly up to DigitCap and saturates
\* beyond it.
DigitCap == 100000000

\* digits of the base from position i on: [val, i] with i the first
\* position not consumed
RECURSIVE DigitRun(_, _, _, _)
DigitRun(s, i, base, acc) ==
    LET c == At0(s, i)
    IN  IF isxdigit(c) /\ XDigitVal(c) < base
        THEN DigitRun(s, i + 1, base,
                      IF acc >= DigitCap THEN acc
                      ELSE acc * base + XDigitVal(c))
        ELSE [val |-> acc, i |-> i]

RECURSIVE SkipSpace(_, _)
SkipSpace(s, i) == IF isspace(At0(s, i)) THEN SkipSpace(s, i + 1) ELSE i

\* w * base + carry on limbs: the four limbs of the result and the carry
\* out of the highest
RECURSIVE MulAdd(_, _, _)
MulAdd(w, base, carry) ==
    IF w = <<>> THEN <<carry>>
    ELSE <<(Head(w) * base + carry) % 65536>>
         \o MulAdd(Tail(w), base, (Head(w) * base + carry) \div 65536)

\* the digits of strtoll from position i on: [mag, over, i], over when the
\* magnitude went beyond 64 bits
RECURSIVE DigitRunLL(_, _, _, _, _)
DigitRunLL(s, i, base, mag, over) ==
    IF isxdigit(At0(s, i)) /\ XDigitVal(At0(s, i)) < base
    THEN Bind(MulAdd(mag, base, XDigitVal(At0(s, i))), LAMBDA m :
           IF over \/ m[5] # 0 THEN DigitRunLL(s, i + 1, base, mag, TRUE)
           ELSE DigitRunLL(s, i + 1, base, SubSeq(m, 1, 4), FALSE))
    ELSE [mag |-> mag, over |-> over, i |-> i]

\* the value strtoll returns for a sign and a digit run: LLONG_MAX or
\* LLONG_MIN when the value is out of range
LLValue(neg, r) ==
    IF r.over \/ r.mag[4] > 32768
          \/ (r.mag[4] = 32768 /\ (~neg \/ SubSeq(r.mag, 1, 3) # <<0, 0, 0>>))
    THEN (IF neg THEN [neg |-> TRUE, mag |-> <<0, 0, 0, 32768>>]
          ELSE [neg |-> FALSE, mag |-> <<65535, 65535, 65535, 32767>>])
    ELSE [neg |-> neg /\ r.mag # <<0, 0, 0, 0>>, mag |-> r.mag]

\* strtoll(s, &ep, 0): [val, n], n the number of bytes converted (ep - s),
\* 0 when no conversion was made
strtoll(s) ==
    Bind(SkipSpace(s, 1), LAMBDA i0 :
    Bind(IF At0(s, i0) \in {Ord("-"), Ord("+")} THEN i0 + 1 ELSE i0, LAMBDA i1 :
    Bind(At0(s, i1) = Ord("0") /\ tolower(At0(s, i1 + 1)) = Ord("x")
         /\ isxdigit(At0(s, i1 + 2)), LAMBDA hex :
    Bind(IF hex THEN i1 + 2 ELSE i1, LAMBDA i2 :
    Bind(DigitRunLL(s, i2,
                    IF hex THEN 16 ELSE IF At0(s, i1) = Ord("0") THEN 8 ELSE 10,
                    LLZero.mag, FALSE), LAMBDA r :
      IF r.i = i2 THEN [val |-> LLZero, n |-> 0]
      ELSE [val |-> LLValue(At0(s, i0) = Ord("-"), r), n |-> r.i - 1])))))

\* A double is kept as <<sign, mantissa, decimal exponent>> with the
\* mantissa stripped of trailing zeros (binary rounding is not modelled).
RECURSIVE NormReal(_, _, _)
NormReal(neg, m, e) ==
    IF m = 0 THEN <<IF neg THEN 1 ELSE 0, 0, 0>>
    ELSE IF m % 10 = 0 THEN NormReal(neg, m \div 10, e + 1)
    ELSE <<IF neg THEN 1 ELSE 0, m, e>>

\* strtod(s, &ep): [val, n], n the number of bytes converted.  "1."
\* consumes the dot, "." alone converts nothing; an exponent counts only
\* with digits.
strtod(s) ==
    Bind(SkipSpace(s, 1), LAMBDA i0 :
    Bind(IF At0(s, i0) \in {Ord("-"), Ord("+")} THEN i0 + 1 ELSE i0, LAMBDA i1 :
    Bind(DigitRun(s, i1, 10, 0), LAMBDA ip :
    Bind(At0(s, ip.i) = Ord("."), LAMBDA dot :
    Bind(IF dot THEN DigitRun(s, ip.i + 1, 10, ip.val) ELSE ip, LAMBDA fp :
    Bind(IF dot THEN fp.i - (ip.i + 1) ELSE 0, LAMBDA nfrac :
    Bind(IF tolower(At0(s, fp.i)) # Ord("e") THEN fp.i
         ELSE IF At0(s, fp.i + 1) \in {Ord("-"), Ord("+")} THEN fp.i + 2
         ELSE fp.i + 1, LAMBDA ie :
    Bind(DigitRun(s, ie, 10, 0), LAMBDA ep :
    Bind(ie > fp.i /\ ep.i > ie, LAMBDA useE :
      IF (ip.i - i1) + nfrac = 0 THEN [val |-> NoReal, n |-> 0]
      ELSE [val |-> NormReal(At0(s, i0) = Ord("-"), fp.val,
                             (IF ~useE THEN 0
                              ELSE IF At0(s, fp.i + 1) = Ord("-") THEN -ep.val
                              ELSE ep.val) - nfrac),
            n |-> (IF useE THEN ep.i ELSE fp.i) - 1])))))))))

\* strptime's get_number(from, to, n): skips spaces, needs a digit, reads
\* digits while fewer than n were read and val * 10 <= to
RECURSIVE GetDigits(_, _, _, _, _)
GetDigits(s, i, to, n, val) ==
    IF n > 0 /\ val * 10 <= to /\ isdigit(At0(s, i))
    THEN GetDigits(s, i + 1, to, n - 1, val * 10 + (At0(s, i) - Ord("0")))
    ELSE [val |-> val, i |-> i]

RECURSIVE SkipSpc(_, _)
SkipSpc(s, i) == IF At0(s, i) = Ord(" ") THEN SkipSpc(s, i + 1) ELSE i

get_number(s, i, from, to, n) ==
    Bind(SkipSpc(s, i), LAMBDA j :
      IF ~isdigit(At0(s, j)) THEN [ok |-> FALSE, val |-> 0, i |-> j]
      ELSE Bind(GetDigits(s, j + 1, to, n - 1, At0(s, j) - Ord("0")), LAMBDA r :
             [ok |-> r.val >= from /\ r.val <= to, val |-> r.val,
              i |-> r.i]))

\* the digits of %z: up to four, a ':' allowed after the second
RECURSIVE ZoneDigits(_, _, _, _)
ZoneDigits(s, i, n, val) ==
    IF n < 4 /\ isdigit(At0(s, i))
    THEN ZoneDigits(s,
                    IF At0(s, i + 1) = Ord(":") /\ n + 1 = 2
                       /\ isdigit(At0(s, i + 2))
                    THEN i + 2 ELSE i + 1,
                    n + 1, val * 10 + (At0(s, i) - Ord("0")))
    ELSE [val |-> val, n |-> n, i |-> i]

\* %z: [ok, off], off the offset from UTC in seconds
StrpZone(s, z0) ==
    IF At0(s, z0) = Ord("Z") THEN [ok |-> TRUE, off |-> 0]
    ELSE IF At0(s, z0) \notin {Ord("-"), Ord("+")} THEN [ok |-> FALSE, off |-> 0]
    ELSE Bind(ZoneDigits(s, z0 + 1, 0, 0), LAMBDA zd :
         Bind(IF zd.n = 2 THEN zd.val * 100 ELSE zd.val, LAMBDA zv :
           [ok |-> zd.n \in {2, 4} /\ zv % 100 < 60,
            off |-> (IF At0(s, z0) = Ord("-") THEN -1 ELSE 1)
                    * ((zv \div 100) * 3600 + (zv % 100) * 60)]))

\* the numeric conversions: range and width handed to get_number, the
\* field of tm that is set and what is subtracted from the number
StrpField ==
    [Y |-> [from |-> 0, to |-> 9999, n |-> 4, at |-> 1, sub |-> 1900],
     m |-> [from |-> 1, to |-> 12, n |-> 2, at |-> 2, sub |-> 1],
     d |-> [from |-> 1, to |-> 31, n |-> 2, at |-> 3, sub |-> 0],
     H |-> [from |-> 0, to |-> 23, n |-> 2, at |-> 4, sub |-> 0],
     M |-> [from |-> 0, to |-> 59, n |-> 2, at |-> 5, sub |-> 0],
     S |-> [from |-> 0, to |-> 61, n |-> 2, at |-> 6, sub |-> 0]]

\* "%Y-%m-%d %H:%M:%S %z", one entry per conversion or literal
DateFormat ==
    <<"Y", "-", "m", "-", "d", " ", "H", ":", "M", ":", "S", " ", "z">>

\* the loop of strptime over the format: white space in the format skips
\* white space in the text, any other literal must match
RECURSIVE StrpLoop(_, _, _, _)
StrpLoop(s, i, fmt, tm) ==
    IF fmt = <<>> THEN [ok |-> TRUE, tm |-> tm]
    ELSE CASE Head(fmt) = " " ->
                StrpLoop(s, SkipSpace(s, i), Tail(fmt), tm)
           [] Head(fmt) \in {"-", ":"} ->
                IF At0(s, i) # Ord(Head(fmt)) THEN [ok |-> FALSE, tm |-> NoTm]
                ELSE StrpLoop(s, i + 1, Tail(fmt), tm)
           [] Head(fmt) = "z" ->
                Bind(StrpZone(s, SkipSpace(s, i)), LAMBDA z :
                  IF ~z.ok THEN [ok |-> FALSE, tm |-> NoTm]
                  ELSE [ok |-> TRUE, tm |-> [tm EXCEPT ![7] = z.off]])
           [] OTHER ->
                Bind(StrpField[Head(fmt)], LAMBDA f :
                Bind(get_number(s, i, f.from, f.to, f.n), LAMBDA r :
                  IF ~r.ok THEN [ok |-> FALSE, tm |-> NoTm]
                  ELSE StrpLoop(s, r.i, Tail(fmt),
                                [tm EXCEPT ![f.at] = r.val - f.sub])))

\* strptime(s, "%Y-%m-%d %H:%M:%S %z", &tm): [ok, tm]; ok is "the result
\* is not NULL".  tm = <<tm_year, tm_mon, tm_mday, tm_hour, tm_min, tm_sec,
\* tm_gmtoff>>.
strptime(s) == StrpLoop(s, 1, DateFormat, NoTm)

\* bitwise or of two bytes
RECURSIVE BitOr(_, _, _)
BitOr(a, b, k) ==
    IF k = 0 THEN 0
    ELSE (IF a % 2 = 1 \/ b % 2 = 1 THEN 1 ELSE 0)
         + 2 * BitOr(a \div 2, b \div 2, k - 1)

\* (a tohex for the decimal digits only)
tohexDecimal(c) == c - Ord("0")
\* #define tohex(_c) (isdigit(_c) ? (_c) - '0' : tolower(_c) - 'a' + 10)
tohex(c) == IF isdigit(c) THEN c - Ord("0") ELSE tolower(c) - Ord("a") + 10

\* ------------------------------------------------------ text parser
\* struct plist_txt_s after plist_txt_new: memset 0, state SCAN.  pt_buf
\* is the scanner buffer's contents, pt_bufsz its length.
NewTxt ==
    [pt_state |-> "SCAN", pt_depth |-> 0, pt_top |-> NULL, pt_cur |-> NULL,
     pt_buf |-> <<>>, pt_bufoff |-> 0, pt_escape |-> FALSE,
     pt_datacnt |-> 0]

\* A parse call is evaluated in a context c:
\*   c.mem    the chunk followed by the memory that lies behind it
\*   c.sz     the size of the chunk
\*   c.junk   the byte found in freshly (re)allocated buffer cells
\*   c.stale  whether memory of a freed node still shows its old contents
EP(c) == c.sz + 1

\* txt->pt_cur->p_elem.  Reading a freed node is a use after free: either
\* the old contents are still there, or the allocator has overwritten them
\* (then the value matches no container kind).
CurElem(c, M, id) ==
    IF M.n[id].live \/ c.stale THEN M.n[id].p_elem ELSE "UNKNOWN"

SetState(txt, st) == [txt EXCEPT !.pt_state = st]

\* _plist_txt_push yields [txt, M]
_plist_txt_push(c, txt, M, value) ==
    IF txt.pt_depth = 0
    THEN [txt |-> [txt EXCEPT !.pt_top = value, !.pt_cur = value,
                              !.pt_depth = @ + 1, !.pt_state = "SCAN"],
          M |-> M]
    ELSE IF txt.pt_cur = NULL
    THEN [txt |-> SetState(txt, "ERROR"), M |-> plist_free(M, value)]
    ELSE LET e == CurElem(c, M, txt.pt_cur)
             cur == M.n[txt.pt_cur]
             M1 == IF e = "KEY"
                   THEN plist_dict_set(M, cur.p_parent, cur.str, value).M
                   ELSE plist_array_append(M, txt.pt_cur, value).M
         IN  IF e \in {"KEY", "ARRAY"}
             THEN [txt |-> [txt EXCEPT !.pt_cur = value, !.pt_depth = @ + 1,
                                       !.pt_state = "SCAN"],
                   M |-> M1]
             ELSE [txt |-> SetState(txt, "ERROR"),
                   M |-> plist_free(M, value)]

\* _plist_txt_next yields [txt, M]
_plist_txt_next(c, txt, M, value) ==
    IF txt.pt_depth = 0
    THEN [txt |-> [txt EXCEPT !.pt_top = value, !.pt_cur = value,
                              !.pt_state = "SCAN"],
          M |-> M]
    ELSE IF txt.pt_cur = NULL
    THEN [txt |-> SetState(txt, "ERROR"), M |-> plist_free(M, value)]
    ELSE LET e == CurElem(c, M, txt.pt_cur)
             cur == M.n[txt.pt_cur]
         IN  CASE e = "DICT" ->
                    IF M.n[value].p_elem # "STRING"
                       \/ plist_dict_haskey(M, txt.pt_cur, M.n[value].str)
                    THEN [txt |-> SetState(txt, "ERROR"),
                          M |-> plist_free(M, value)]
                    ELSE [txt |-> [txt EXCEPT !.pt_cur = value,
                                              !.pt_depth = @ + 1,
                                              !.pt_state = "SCAN"],
                          M |-> [M EXCEPT !.n = TAILQ_INSERT_TAIL(
                                   [M.n EXCEPT
                                      ![value].p_elem = "KEY",
                                      ![value].pk_value = NULL,
                                      ![value].p_parent = txt.pt_cur,
                                      ![txt.pt_cur].num = @ + 1],
                                   txt.pt_cur, value)]]
               [] e = "KEY" ->
                    [txt |-> SetState(txt, "SCAN"),
                     M |-> plist_dict_set(M, cur.p_parent, cur.str, value).M]
               [] e = "ARRAY" ->
                    [txt |-> SetState(txt, "SCAN"),
                     M |-> plist_array_append(M, txt.pt_cur, value).M]
               [] OTHER ->
                    [txt |-> SetState(txt, "ERROR"),
                     M |-> plist_free(M, value)]

\* (a pop that leaves the counter alone)
_plist_txt_pop_keeps_depth(txt, M) ==
    IF txt.pt_depth <= 0 \/ txt.pt_cur = NULL THEN SetState(txt, "ERROR")
    ELSE [txt EXCEPT !.pt_cur = M.n[txt.pt_cur].p_parent,
                     !.pt_state = "SCAN"]
\* _plist_txt_pop
_plist_txt_pop(txt, M) ==
    IF txt.pt_depth <= 0 \/ txt.pt_cur = NULL THEN SetState(txt, "ERROR")
    ELSE [txt EXCEPT !.pt_depth = @ - 1,
                     !.pt_cur = M.n[txt.pt_cur].p_parent,
                     !.pt_state = "SCAN"]

\* _plist_txt_buf: make room for extend more bytes (the realloc is taken
\* to succeed; new cells hold whatever the allocator left there)
_plist_txt_buf(c, txt, extend) ==
    IF Len(txt.pt_buf) - txt.pt_bufoff >= extend THEN txt
    ELSE [txt EXCEPT !.pt_buf = @ \o [i \in 1..extend |-> c.junk]]

\* the check at the head of every continuation loop
Room(c, txt) ==
    IF txt.pt_bufoff = Len(txt.pt_buf)
    THEN _plist_txt_buf(c, txt, CHUNK_EXTENDSZ) ELSE txt

\* bp[pt_bufoff] = b
Store(txt, b) == [txt EXCEPT !.pt_buf[txt.pt_bufoff + 1] = b]
\* bp[pt_bufoff] = b; pt_bufoff++
Put(txt, b) == [Store(txt, b) EXCEPT !.pt_bufoff = @ + 1]
\* the NUL terminated text at the start of the buffer
BufText(txt) == CStr(txt.pt_buf)

\* Outcome of one pass of the dispatch: ret = "GO" is goto nextstate, any
\* other value is the value returned by plist_txt_parse ("FAULT": the call
\* read memory that is not mapped).
R(txt, M, cp, ret) == [txt |-> txt, M |-> M, cp |-> cp, ret |-> ret]
\* (a return of the error code that leaves pt_state as it was)
ErrKeepsState(txt, M, cp, code) == R(txt, M, cp, code)
\* (an error exit that also releases the tree built so far)
ErrFreesTree(txt, M, cp, code) ==
    R(SetState(txt, "ERROR"), plist_free(M, txt.pt_top), cp, code)
\* txt->pt_state = PLIST_TXT_STATE_ERROR; return code;
Err(txt, M, cp, code) == R(SetState(txt, "ERROR"), M, cp, code)
Mapped(c, i) == i >= 1 /\ i <= Len(c.mem)

\* a value was produced: hand it to _plist_txt_next and go on at cp
Emit(c, txt, M, nr, cp) ==
    IF nr.err # "OK" THEN Err(txt, M, cp, nr.err)
    ELSE Bind(_plist_txt_next(c, txt, nr.M, nr.id), LAMBDA x :
           R(x.txt, x.M, cp, "GO"))
\* the same from a continuation state, which then sets the state to SCAN
\* whatever _plist_txt_next decided
EmitScan(c, txt, M, nr, cp) ==
    IF nr.err # "OK" THEN Err(txt, M, cp, nr.err)
    ELSE Bind(_plist_txt_next(c, txt, nr.M, nr.id), LAMBDA x :
           R(SetState(x.txt, "SCAN"), x.M, cp, "GO"))

\* while (isblank(cp[0]) && cp[0] != '\0' && cp != ep) cp++
RECURSIVE SkipBlank(_, _)
SkipBlank(c, cp) ==
    IF Mapped(c, cp) /\ isblank(c.mem[cp]) /\ cp # EP(c)
    THEN SkipBlank(c, cp + 1) ELSE cp

\* inline string scan: first position from cp on that is the chunk end or
\* holds a backslash or a quote (or is not mapped)
RECURSIVE StrStop(_, _)
StrStop(c, cp) ==
    IF ~Mapped(c, cp) \/ cp = EP(c) \/ c.mem[cp] \in {Ord("\\"), Ord("\"")} THEN cp
    ELSE StrStop(c, cp + 1)

\* inline number scan: first position from cp on that is the chunk end or
\* holds no digit
RECURSIVE DigStop(_, _)
DigStop(c, cp) ==
    IF ~Mapped(c, cp) \/ cp = EP(c) \/ ~isdigit(c.mem[cp]) THEN cp
    ELSE DigStop(c, cp + 1)

\* the look-ahead after 't' / 'f': "match", "mismatch", or "fault" when a
\* compared byte is not mapped (the comparison stops at the first mismatch)
RECURSIVE Look(_, _, _)
Look(c, cp, lit) ==
    IF lit = <<>> THEN "match"
    ELSE IF ~Mapped(c, cp) THEN "fault"
    ELSE IF tolower(c.mem[cp]) # Head(lit) THEN "mismatch"
    ELSE Look(c, cp + 1, Tail(lit))

TrueLit == B(<<"t", "r", "u", "e">>)
FalseLit == B(<<"f", "a", "l", "s", "e">>)

\* chunk.pc_ep - chunk.pc_cp < strlen(..): the difference is converted to
\* size_t, so a negative one compares as huge
Short(c, cp, n) == EP(c) - cp >= 0 /\ EP(c) - cp < n

\* 't' / 'f' in SCAN; lit is the literal, flag the value
ScanBool(c, txt, M, cp, lit, flag, st) ==
    IF Short(c, cp, Len(lit) - 1)
    THEN R(SetState(_plist_txt_buf(c, [txt EXCEPT !.pt_bufoff = 0],
                                   Len(lit) + 1), st),
           M, cp, "GO")
    ELSE Bind(Look(c, cp + 1, Tail(lit)), LAMBDA l :
           IF l = "fault" THEN R(txt, M, cp, "FAULT")
           ELSE IF l = "mismatch" THEN Err(txt, M, cp, "EINVAL")
           ELSE Emit(c, txt, M, plist_boolean_new(M, flag), cp + Len(lit)))

\* '"' in SCAN
ScanString(c, txt, M, cp0) ==
    Bind(StrStop(c, cp0 + 1), LAMBDA cp :
      IF ~Mapped(c, cp) /\ cp # EP(c) THEN R(txt, M, cp, "FAULT")
      ELSE IF cp = EP(c) \/ c.mem[cp] = Ord("\\")
      THEN R(SetState(_plist_txt_buf(c, [txt EXCEPT !.pt_bufoff = 0],
                                     cp - (cp0 + 1)), "STRING"),
             M, cp0 + 1, "GO")
      ELSE Emit(c, txt, M,
                plist_format_new(M, SubSeq(c.mem, cp0 + 1, cp - 1)),
                cp + 1))

\* '-' or a digit in SCAN
ScanNumber(c, txt, M, cp0) ==
    Bind(DigStop(c, IF c.mem[cp0] = Ord("-") THEN cp0 + 1 ELSE cp0), LAMBDA cp :
      IF ~Mapped(c, cp) /\ cp # EP(c) THEN R(txt, M, cp, "FAULT")
      ELSE IF cp = EP(c) \/ c.mem[cp] = Ord(".") \/ tolower(c.mem[cp]) = Ord("e")
      THEN R(SetState(_plist_txt_buf(c, [txt EXCEPT !.pt_bufoff = 0],
                                     cp - cp0),
                      IF cp = EP(c) THEN "NUMBER" ELSE "DOUBLE"),
             M, cp0, "GO")
      ELSE Bind(strtoll(SubSeq(c.mem, cp0, Len(c.mem))), LAMBDA ll :
             IF cp0 + ll.n # cp THEN Err(txt, M, cp0, "EINVAL")
             ELSE Emit(c, txt, M, plist_integer_new(M, ll.val), cp)))

\* (the NUL case returning 0 without entering DONE)
ScanNulStaysInScan(txt, M, cp) ==
    IF txt.pt_top # NULL /\ txt.pt_depth = 0
    THEN R(txt, M, cp, "OK")
    ELSE Err(txt, M, cp, "EINVAL")

\* case '\0' in SCAN: the end of the document
ScanNul(txt, M, cp) ==
    IF txt.pt_top # NULL /\ txt.pt_depth = 0
    THEN R(SetState(txt, "DONE"), M, cp, "OK")
    ELSE Err(txt, M, cp, "EINVAL")

\* case PLIST_TXT_STATE_SCAN
Scan(c, txt, M, cp0) ==
    LET cp == SkipBlank(c, cp0)
    IN  IF cp = EP(c) THEN R(txt, M, cp, "OK")
        ELSE IF ~Mapped(c, cp) THEN R(txt, M, cp, "FAULT")
        ELSE LET b == c.mem[cp]
                 cur == txt.pt_cur
                 ce == IF cur = NULL THEN "NONE" ELSE CurElem(c, M, cur)
             IN
             CASE b = Ord("{") ->
                    LET nr == plist_dict_new(M)
                        x == _plist_txt_push(c, txt, nr.M, nr.id)
                    IN  IF nr.err # "OK" THEN Err(txt, M, cp, nr.err)
                        ELSE R(x.txt, x.M, cp + 1, "GO")
               [] b = Ord("}") ->
                    IF cur = NULL THEN Err(txt, M, cp, "EACCES")
                    ELSE LET t1 == IF ce = "KEY" THEN _plist_txt_pop(txt, M)
                                   ELSE txt
                         IN  IF t1.pt_cur = NULL THEN R(t1, M, cp, "FAULT")
                             ELSE IF CurElem(c, M, t1.pt_cur) # "DICT"
                             THEN Err(t1, M, cp, "EACCES")
                             ELSE R(_plist_txt_pop(t1, M), M, cp + 1, "GO")
               [] b = Ord(":") ->
                    IF ce # "KEY" THEN Err(txt, M, cp, "EACCES")
                    ELSE R(txt, M, cp + 1, "GO")
               [] b = Ord(";") ->
                    IF ce # "KEY" THEN Err(txt, M, cp, "EACCES")
                    ELSE R(_plist_txt_pop(txt, M), M, cp + 1, "GO")
               [] b = Ord("(") ->
                    LET nr == plist_array_new(M)
                        x == _plist_txt_push(c, txt, nr.M, nr.id)
                    IN  IF nr.err # "OK" THEN Err(txt, M, cp, nr.err)
                        ELSE R(x.txt, x.M, cp + 1, "GO")
               [] b = Ord(")") ->
                    IF ce # "ARRAY" THEN Err(txt, M, cp, "EACCES")
                    ELSE R(_plist_txt_pop(txt, M), M, cp + 1, "GO")
               [] b = Ord(",") ->
                    IF ce # "ARRAY" THEN Err(txt, M, cp, "EACCES")
                    ELSE R(txt, M, cp + 1, "GO")
               [] b = Ord("<") ->
                    R([txt EXCEPT !.pt_datacnt = 0, !.pt_bufoff = 0,
                                  !.pt_state = "DATA"], M, cp + 1, "GO")
               [] b = Ord("\"") -> ScanString(c, txt, M, cp)
               [] b = Ord("-") \/ isdigit(b) -> ScanNumber(c, txt, M, cp)
               [] tolower(b) = Ord("t") ->
                    ScanBool(c, txt, M, cp, TrueLit, TRUE, "TRUE")
               [] tolower(b) = Ord("f") ->
                    ScanBool(c, txt, M, cp, FalseLit, FALSE, "FALSE")
               [] b = Ord("NUL") -> ScanNul(txt, M, cp)
               [] OTHER -> Err(txt, M, cp, "EINVAL")

\* The loops of the continuation states yield [txt, cp, how]: how = "OK"
\* the chunk ended (return 0), "END" the token ended, "FAULT", or the
\* name of the state to switch to.
L(txt, cp, how) == [txt |-> txt, cp |-> cp, how |-> how]

\* case PLIST_TXT_STATE_DATA
RECURSIVE DataLoop(_, _, _)
DataLoop(c, txt, cp) ==
    IF cp = EP(c) THEN L(txt, cp, "OK")
    ELSE IF ~Mapped(c, cp) THEN L(txt, cp, "FAULT")
    ELSE IF txt.pt_bufoff = 0 /\ c.mem[cp] = Ord("*")
    THEN L(SetState(txt, "DATE"), cp + 1, "DATE")
    ELSE IF txt.pt_bufoff = Len(txt.pt_buf)
    THEN DataLoop(c, Room(c, txt), cp)
    ELSE LET b == c.mem[cp]
             hi == (tohex(b) * 16) % 256
             lo == BitOr(txt.pt_buf[txt.pt_bufoff + 1] % 256,
                         tohex(b) % 256, 8)
         IN  IF isblank(b) THEN DataLoop(c, txt, cp + 1)
             ELSE IF b = Ord(">") THEN L(txt, cp + 1, "END")
             ELSE IF txt.pt_datacnt % 2 = 0
             THEN DataLoop(c, [Store(txt, hi) EXCEPT !.pt_datacnt = @ + 1],
                           cp + 1)
             ELSE DataLoop(c, [Put(txt, lo) EXCEPT !.pt_datacnt = @ + 1],
                           cp + 1)

StateData(c, txt, M, cp) ==
    Bind(DataLoop(c, txt, cp), LAMBDA l :
      IF l.how = "END"
      THEN EmitScan(c, l.txt, M,
                    plist_data_new(M, SubSeq(l.txt.pt_buf, 1,
                                             (l.txt.pt_datacnt \div 2)
                                             + (l.txt.pt_datacnt % 2))),
                    l.cp)
      ELSE R(l.txt, M, l.cp, IF l.how = "DATE" THEN "GO" ELSE l.how))

\* case PLIST_TXT_STATE_DATE
RECURSIVE DateLoop(_, _, _)
DateLoop(c, txt, cp) ==
    IF cp = EP(c) THEN L(txt, cp, "OK")
    ELSE IF ~Mapped(c, cp) THEN L(txt, cp, "FAULT")
    ELSE IF txt.pt_bufoff = Len(txt.pt_buf)
    THEN DateLoop(c, Room(c, txt), cp)
    ELSE IF c.mem[cp] = Ord(">") THEN L(Store(txt, Ord("NUL")), cp + 1, "END")
    ELSE DateLoop(c, Put(txt, c.mem[cp]), cp + 1)

StateDate(c, txt, M, cp) ==
    Bind(DateLoop(c, txt, cp), LAMBDA l :
      IF l.how # "END" THEN R(l.txt, M, l.cp, l.how)
      ELSE Bind(strptime(BufText(l.txt)), LAMBDA tm :
             IF ~tm.ok THEN Err(l.txt, M, l.cp, "EINVAL")
             ELSE EmitScan(c, l.txt, M, plist_date_new(M, tm.tm), l.cp)))

\* (an escape switch that stores every escaped byte as it is)
EscapedVerbatim(b) == b

\* the escape switch: the byte stored for an escaped b, or "keep" when no
\* case matches and the buffer cell is left as it is
Escaped(b) ==
    CASE b \in {Ord("\\"), Ord("/"), Ord("\"")} -> b
      [] b = Ord("b") -> Ord("BS")
      [] b = Ord("t") -> Ord("TAB")
      [] b = Ord("f") -> Ord("FF")
      [] b = Ord("n") -> Ord("LF")
      [] b = Ord("r") -> Ord("CR")
      [] OTHER -> -1

\* case PLIST_TXT_STATE_STRING
RECURSIVE StringLoop(_, _, _)
StringLoop(c, txt, cp) ==
    IF cp = EP(c) THEN L(txt, cp, "OK")
    ELSE IF ~Mapped(c, cp) THEN L(txt, cp, "FAULT")
    ELSE IF txt.pt_bufoff = Len(txt.pt_buf)
    THEN StringLoop(c, Room(c, txt), cp)
    ELSE LET b == c.mem[cp]
         IN  IF txt.pt_escape
             THEN StringLoop(c,
                     [(IF Escaped(b) = -1 THEN txt
                       ELSE Store(txt, Escaped(b)))
                        EXCEPT !.pt_bufoff = @ + 1, !.pt_escape = FALSE],
                     cp + 1)
             ELSE IF b = Ord("\\")
             THEN StringLoop(c, [txt EXCEPT !.pt_escape = TRUE], cp + 1)
             ELSE IF b = Ord("\"")
             THEN L(Store(txt, Ord("NUL")), cp + 1, "END")
             ELSE StringLoop(c, Put(txt, b), cp + 1)

StateString(c, txt, M, cp) ==
    Bind(StringLoop(c, txt, cp), LAMBDA l :
      IF l.how # "END" THEN R(l.txt, M, l.cp, l.how)
      ELSE EmitScan(c, l.txt, M, plist_string_new(M, BufText(l.txt)), l.cp))

\* case PLIST_TXT_STATE_NUMBER
RECURSIVE NumberLoop(_, _, _)
NumberLoop(c, txt, cp) ==
    IF cp = EP(c) THEN L(txt, cp, "OK")
    ELSE IF ~Mapped(c, cp) THEN L(txt, cp, "FAULT")
    ELSE IF txt.pt_bufoff = Len(txt.pt_buf)
    THEN NumberLoop(c, Room(c, txt), cp)
    ELSE LET b == c.mem[cp]
         IN  IF b = Ord(".") \/ tolower(b) = Ord("e")
             THEN L(SetState(txt, "DOUBLE"), cp, "DOUBLE")
             ELSE IF isdigit(b) \/ (txt.pt_bufoff = 0 /\ b = Ord("-"))
             THEN NumberLoop(c, Put(txt, b), cp + 1)
             ELSE L(Store(txt, Ord("NUL")), cp, "END")

StateNumber(c, txt, M, cp) ==
    Bind(NumberLoop(c, txt, cp), LAMBDA l :
      IF l.how = "DOUBLE" THEN R(l.txt, M, l.cp, "GO")
      ELSE IF l.how # "END" THEN R(l.txt, M, l.cp, l.how)
      ELSE Bind(BufText(l.txt), LAMBDA text :
           Bind(strtoll(text), LAMBDA ll :
             IF ll.n # Len(text) THEN Err(l.txt, M, l.cp, "EINVAL")
             ELSE EmitScan(c, l.txt, M, plist_integer_new(M, ll.val),
                           l.cp))))

\* case PLIST_TXT_STATE_DOUBLE
RECURSIVE DoubleLoop(_, _, _)
DoubleLoop(c, txt, cp) ==
    IF cp = EP(c) THEN L(txt, cp, "OK")
    ELSE IF ~Mapped(c, cp) THEN L(txt, cp, "FAULT")
    ELSE IF txt.pt_bufoff = Len(txt.pt_buf)
    THEN DoubleLoop(c, Room(c, txt), cp)
    ELSE LET b == c.mem[cp]
         IN  IF b \in {Ord("."), Ord("+"), Ord("-")} \/ tolower(b) = Ord("e")
                \/ isdigit(b)
             THEN DoubleLoop(c, Put(txt, b), cp + 1)
             ELSE L(Store(txt, Ord("NUL")), cp, "END")

StateDouble(c, txt, M, cp) ==
    Bind(DoubleLoop(c, txt, cp), LAMBDA l :
      IF l.how # "END" THEN R(l.txt, M, l.cp, l.how)
      ELSE Bind(BufText(l.txt), LAMBDA text :
           Bind(strtod(text), LAMBDA d :
             IF d.n # Len(text) THEN Err(l.txt, M, l.cp, "EINVAL")
             ELSE EmitScan(c, l.txt, M, plist_real_new(M, d.val), l.cp))))

\* case PLIST_TXT_STATE_TRUE / PLIST_TXT_STATE_FALSE: pick up the rest of
\* the literal in the buffer
RECURSIVE BoolLoop(_, _, _, _)
BoolLoop(c, txt, cp, n) ==
    IF txt.pt_bufoff >= n THEN L(txt, cp, "END")
    ELSE IF cp = EP(c) THEN L(txt, cp, "OK")
    ELSE IF ~Mapped(c, cp) THEN L(txt, cp, "FAULT")
    ELSE BoolLoop(c, Put(txt, c.mem[cp]), cp + 1, n)

StateBool(c, txt, M, cp, lit, flag) ==
    Bind(BoolLoop(c, txt, cp, Len(lit)), LAMBDA l :
      IF l.how # "END" THEN R(l.txt, M, l.cp, l.how)
      ELSE IF [i \in 1..Len(lit) |-> tolower(l.txt.pt_buf[i])] # lit
      THEN Err(l.txt, M, l.cp, "EINVAL")
      ELSE EmitScan(c, l.txt, M, plist_boolean_new(M, flag), l.cp))

\* the switch on txt->pt_state, repeated by goto nextstate
RECURSIVE NextState(_, _, _, _)
NextState(c, txt, M, cp) ==
    Bind(CASE txt.pt_state = "DONE" -> R(txt, M, cp, "OK")
           [] txt.pt_state = "SCAN" -> Scan(c, txt, M, cp)
           [] txt.pt_state = "DATA" -> StateData(c, txt, M, cp)
           [] txt.pt_state = "DATE" -> StateDate(c, txt, M, cp)
           [] txt.pt_state = "STRING" -> StateString(c, txt, M, cp)
           [] txt.pt_state = "NUMBER" -> StateNumber(c, txt, M, cp)
           [] txt.pt_state = "DOUBLE" -> StateDouble(c, txt, M, cp)
           [] txt.pt_state = "TRUE" ->
                StateBool(c, txt, M, cp, TrueLit, TRUE)
           [] txt.pt_state = "FALSE" ->
                StateBool(c, txt, M, cp, FalseLit, FALSE)
           [] OTHER -> R(txt, M, cp, "EACCES"),
         LAMBDA r :
           IF r.ret = "GO" THEN NextState(c, r.txt, r.M, r.cp) ELSE r)

\* plist_txt_parse(txt, buf, sz) with non-null arguments: [txt, M, cp, ret]
plist_txt_parse(c, txt, M) ==
    IF c.sz = 0 THEN R(txt, M, 1, "OK") ELSE NextState(c, txt, M, 1)

\* (plist_txt_result without the plist_free of an unfinished tree)
plist_txt_result_leaks(txt, M) ==
    IF txt.pt_state = "DONE"
    THEN [txt |-> NewTxt, M |-> M, plist |-> txt.pt_top, ret |-> "OK"]
    ELSE [txt |-> NewTxt, M |-> M, plist |-> NULL, ret |-> "ENOENT"]

\* plist_txt_result(txt, &plist) with non-null arguments:
\* [txt, M, plist, ret]
plist_txt_result(txt, M) ==
    IF txt.pt_state = "DONE"
    THEN [txt |-> NewTxt, M |-> M, plist |-> txt.pt_top, ret |-> "OK"]
    ELSE [txt |-> NewTxt, M |-> plist_free(M, txt.pt_top),
          plist |-> NULL, ret |-> "ENOENT"]

\* ---------------------------------------------------------- documents
\* The inputs fed to the parser; a document ending in NUL is what
\* plist_txt_parse(txt, str, sizeof(str)) passes.
\* true\0
DocTrue ==
    B(<<"t","r","u","e","NUL">>)
\* true
DocTrueNoNul ==
    B(<<"t","r","u","e">>)
\* FALSE\0
DocFalseUpper ==
    B(<<"F","A","L","S","E","NUL">>)
\* true false\0
DocTwoRoots ==
    B(<<"t","r","u","e"," ","f","a","l","s","e","NUL">>)
\* {}()\0
DocDictThenArray ==
    B(<<"{","}","(",")","NUL">>)
\* {<4>}\0
DocDataKey ==
    B(<<"{","<","4",">","}","NUL">>)
\* {1}\0
DocIntKey ==
    B(<<"{","1","}","NUL">>)
\* {"a":1;"a"}\0
DocDupKeyOpen ==
    B(<<"{","\"","a","\"",":","1",";","\"","a","\"","}","NUL">>)
\* {"a":"x";}\0
DocKeyValue ==
    B(<<"{","\"","a","\"",":","\"","x","\"",";","}","NUL">>)
\* -1.5e2\0
DocReal ==
    B(<<"-","1",".","5","e","2","NUL">>)
\* ("x",{"k":(7);})\0
DocNested ==
    B(<<"(","\"","x","\"",",","{","\"","k","\"",":","(","7",")",";","}",")",
        "NUL">>)
\* (010,0x1F)\0
DocOctal ==
    B(<<"(","0","1","0",",","0","x","1","F",")","NUL">>)
\* false\0?
DocTrailing ==
    B(<<"f","a","l","s","e","NUL","?">>)
\* \t( TRUE\t)\0
DocTabs ==
    B(<<"TAB","("," ","T","R","U","E","TAB",")","NUL">>)
\* "a\nb"\0
DocShortEscape ==
    B(<<"\"","a","\\","n","b","\"","NUL">>)
\* ( 1 , 2 , -3 )\0
DocArray ==
    B(<<"("," ","1"," ",","," ","2"," ",","," ","-","3"," ",")","NUL">>)
\* { "name" : "Alice" ; "age" : 37 ; }\0
DocPerson ==
    B(<<"{"," ","\"","n","a","m","e","\""," ",":"," ","\"","A","l","i","c",
        "e","\""," ",";"," ","\"","a","g","e","\""," ",":"," ","3","7"," ",
        ";"," ","}","NUL">>)
\* <48 65 6c 6c 6f>\0
DocData ==
    B(<<"<","4","8"," ","6","5"," ","6","c"," ","6","c"," ","6","f",">",
        "NUL">>)
\* <*D2001-11-12 18:31:01 +0000>\0
DocDate ==
    B(<<"<","*","D","2","0","0","1","-","1","1","-","1","2"," ","1","8",":",
        "3","1",":","0","1"," ","+","0","0","0","0",">","NUL">>)
\* { "a" : "x" ; "a" : "y" ; }\0
DocDupKey ==
    B(<<"{"," ","\"","a","\""," ",":"," ","\"","x","\""," ",";"," ","\"",
        "a","\""," ",":"," ","\"","y","\""," ",";"," ","}","NUL">>)
\* "hello\nworld"\0
DocEscape ==
    B(<<"\"","h","e","l","l","o","\\","n","w","o","r","l","d","\"","NUL">>)

Docs ==
    {DocTrue,
     DocTrueNoNul,
     DocFalseUpper,
     DocTwoRoots,
     DocDictThenArray,
     DocDataKey,
     DocIntKey,
     DocDupKeyOpen,
     DocKeyValue,
     DocReal,
     DocNested,
     DocOctal,
     DocTrailing,
     DocTabs,
     DocShortEscape}

\* the longer documents of the end-to-end scenarios
ScenarioDocs ==
    {DocPerson,
     DocDupKey}

\* ( 1 , 2 , -3 ) with a newline in place of every space
DocArrayLines ==
    B(<<"(","LF","1","LF",",","LF","2","LF",",","LF","-","3","LF",")","NUL">>)

\* "\\\/\"\b\t\f\n\r"\0: every escape of the table
DocEscapeTable ==
    B(<<"\"","\\","\\","\\","/","\\","\"","\\","b","\\","t","\\","f",
        "\\","n","\\","r","\"","NUL">>)
\* "a\qb"\0
DocEscapeOther ==
    B(<<"\"","a","\\","q","b","\"","NUL">>)

\* <4A b>\0: an upper case digit and an odd number of digits
DocDataOdd ==
    B(<<"<","4","A"," ","b",">","NUL">>)

\* 4294967296\0: 2^32
DocBig ==
    B(<<"4","2","9","4","9","6","7","2","9","6","NUL">>)
\* -2147483648\0: -2^31
DocIntMin ==
    B(<<"-","2","1","4","7","4","8","3","6","4","8","NUL">>)

\* the documents that exercise one kind of token each
TokenDocs ==
    {DocArray,
     DocArrayLines,
     DocDate,
     DocEscape,
     DocEscapeTable,
     DocEscapeOther,
     DocData,
     DocDataOdd,
     DocBig,
     DocIntMin}

\* the documents that put separators and closers in and out of place
\* {"a";}\0
DocKeyNoValue ==
    B(<<"{","\"","a","\"",";","}","NUL">>)
\* {"a"}\0
DocKeyOnly ==
    B(<<"{","\"","a","\"","}","NUL">>)
\* (1 2)\0
DocAdjacent ==
    B(<<"(","1"," ","2",")","NUL">>)
\* (1,,2)\0
DocDoubleComma ==
    B(<<"(","1",",",",","2",")","NUL">>)
\* (,1)\0
DocLeadComma ==
    B(<<"(",",","1",")","NUL">>)
\* (1,)\0
DocTrailComma ==
    B(<<"(","1",",",")","NUL">>)
\* (1;)\0
DocArraySemi ==
    B(<<"(","1",";",")","NUL">>)
\* (1}\0
DocArrayBrace ==
    B(<<"(","1","}","NUL">>)
\* {"a":()}\0
DocDictParen ==
    B(<<"{","\"","a","\"",":","(",")","}","NUL">>)
\* {"a":)\0
DocKeyParen ==
    B(<<"{","\"","a","\"",":",")","NUL">>)
\* {,}\0
DocDictComma ==
    B(<<"{",",","}","NUL">>)
\* ("a":1)\0
DocArrayColon ==
    B(<<"(","\"","a","\"",":","1",")","NUL">>)
\* )\0
DocStrayClose ==
    B(<<")","NUL">>)
\* {"a":(1);}\0
DocKeyArray ==
    B(<<"{","\"","a","\"",":","(","1",")",";","}","NUL">>)
\* {;}\0
DocDictSemi ==
    B(<<"{",";","}","NUL">>)
\* {:}\0
DocDictColon ==
    B(<<"{",":","}","NUL">>)
\* {"a",}\0
DocKeyComma ==
    B(<<"{","\"","a","\"",",","}","NUL">>)
\* 1)\0
DocRootParen ==
    B(<<"1",")","NUL">>)
SyntaxDocs ==
    {DocKeyNoValue,
     DocKeyOnly,
     DocAdjacent,
     DocDoubleComma,
     DocLeadComma,
     DocTrailComma,
     DocArraySemi,
     DocArrayBrace,
     DocDictParen,
     DocKeyParen,
     DocDictComma,
     DocArrayColon,
     DocStrayClose,
     DocKeyArray,
     DocDictSemi,
     DocDictColon,
     DocKeyComma,
     DocRootParen}

\* ------------------------------------------------------- tree values
\* the nodes of the subtree at id (id itself, the Keys or elements, a
\* Key's value)
RECURSIVE Subtree(_, _)
Subtree(M, id) ==
    IF id = NULL THEN {}
    ELSE LET nd == M.n[id]
             ch == Range(Kids(M, id))
                   \cup (IF nd.p_elem = "KEY" /\ nd.pk_value # NULL
                         THEN {nd.pk_value} ELSE {})
         IN  {id} \cup UNION {Subtree(M, k) : k \in ch}

\* the subtree at id as a value: what a caller sees walking from id with
\* plist_first / plist_next and the payload fields
RECURSIVE TreeOf(_, _)
TreeOf(M, id) ==
    LET nd == M.n[id]
        ch == IF nd.p_elem = "KEY"
              THEN (IF nd.pk_value = NULL THEN <<>> ELSE <<nd.pk_value>>)
              ELSE Kids(M, id)
    IN  [p_elem |-> nd.p_elem, num |-> nd.num, str |-> nd.str,
         pi_int |-> nd.pi_int, pb_bool |-> nd.pb_bool,
         pr_double |-> nd.pr_double, pd_data |-> nd.pd_data,
         pd_tm |-> nd.pd_tm,
         kids |-> [i \in 1..Len(ch) |-> TreeOf(M, ch[i])]]

Leaf(elem) ==
    [p_elem |-> elem, num |-> 0, str |-> <<>>, pi_int |-> 0,
     pb_bool |-> FALSE, pr_double |-> NoReal, pd_data |-> <<>>,
     pd_tm |-> NoTm, kids |-> <<>>]
BooleanT(flag) == [Leaf("BOOLEAN") EXCEPT !.pb_bool = flag]
IntegerT(v) == [Leaf("INTEGER") EXCEPT !.pi_int = v]
StringT(chars) == [Leaf("STRING") EXCEPT !.str = B(chars)]
KeyT(chars, v) == [Leaf("KEY") EXCEPT !.str = B(chars), !.kids = <<v>>]
DictT(keys) == [Leaf("DICT") EXCEPT !.num = Len(keys), !.kids = keys]
ArrayT(elems) == [Leaf("ARRAY") EXCEPT !.num = Len(elems), !.kids = elems]
RealT(d) == [Leaf("REAL") EXCEPT !.pr_double = d]

\* -------------------------------------------------------------- caller
\* One caller drives one parser: it feeds a document in chunks of its
\* choice, takes the result, releases the tree it was given and goes on
\* with another document.
VARIABLES
    txt,     \* the plist_txt_t
    heap,    \* the nodes
    docs,    \* the documents the caller works through
    doc,     \* the document being fed
    pos,     \* bytes of doc fed so far
    fed,     \* the last parse call was given a non-empty chunk
    calls,   \* parse calls made on this document (counted up to MaxCalls)
    ret,     \* value returned by the last call
    last,    \* the last call: "new", "parse", "result"
    out,     \* *plistpp of the last result call
    held,    \* nodes of the tree at pt_top when result was called
    allok,   \* every parse call on this document returned 0
    call,    \* the last tree operation called, with its arguments
    used,    \* the tree operations called on the nodes since the caller started
    seen     \* the nodes that the last PLIST_FOREACH loop was handed

vars ==
    <<txt, heap, docs, doc, pos, fed, calls, ret, last, out, held, allok,
      call, used, seen>>

\* the bytes found behind a chunk: the rest of the caller's buffer when
\* the chunk is a slice of it, else whatever lies there
Pad(seq, b) ==
    IF Len(seq) >= OobLen THEN seq
    ELSE seq \o [i \in 1..(OobLen - Len(seq)) |-> b]
OobSet(rest) == {Pad(rest, Ord("NUL")), Pad(<<>>, Ord("?"))}
JunkSet == {Ord("?"), Ord("q")}

Ctx(chunk, oob, junk, stale) ==
    [mem |-> chunk \o oob, sz |-> Len(chunk), junk |-> junk,
     stale |-> stale]

NoCall == [op |-> "none", a |-> NULL, b |-> NULL, name |-> <<>>, loc |-> 0]

\* a caller with the documents D, before its first call
Start(D) ==
    /\ txt = NewTxt
    /\ heap = EmptyHeap
    /\ docs = D
    /\ doc \in D
    /\ pos = 0
    /\ fed = FALSE
    /\ calls = 0
    /\ ret = "NONE"
    /\ last = "new"
    /\ out = NULL
    /\ held = {}
    /\ allok = TRUE
    /\ call = NoCall
    /\ used = {}
    /\ seen = <<>>

Init == Start(Docs)
InitScenario == Start(ScenarioDocs)

\* plist_txt_parse(txt, doc + pos, n)
Parse ==
    /\ last # "result"
    /\ ret # "FAULT"
    /\ \E n \in 0..(Len(doc) - pos), junk \in JunkSet, stale \in BOOLEAN :
         \E oob \in OobSet(SubSeq(doc, pos + n + 1, Len(doc))) :
         \E r \in {plist_txt_parse(Ctx(SubSeq(doc, pos + 1, pos + n),
                                        oob, junk, stale), txt, heap)} :
                /\ txt' = r.txt
                /\ heap' = r.M
                /\ ret' = r.ret
                /\ fed' = (n > 0)
                /\ pos' = pos + n
                /\ allok' = (allok /\ r.ret = "OK")
    /\ calls' = IF calls < MaxCalls THEN calls + 1 ELSE calls
    /\ last' = "parse"
    /\ UNCHANGED <<docs, doc, out, held, call, used, seen>>

\* plist_txt_result(txt, &out)
Result ==
    /\ last # "result"
    /\ ret # "FAULT"
    /\ \E r \in {plist_txt_result(txt, heap)} :
           /\ txt' = r.txt
           /\ heap' = r.M
           /\ out' = r.plist
           /\ ret' = r.ret
    /\ held' = Subtree(heap, txt.pt_top)
    /\ last' = "result"
    /\ UNCHANGED <<docs, doc, pos, fed, calls, allok, call, used, seen>>

\* the caller releases the tree it holds (plist_free(out)) and starts on
\* another document; after a fault it starts over with a new parser
NewDoc ==
    /\ last = "result" \/ ret = "FAULT"
    /\ doc' \in docs
    /\ UNCHANGED <<docs, call, used, seen>>
    /\ txt' = IF ret = "FAULT" THEN NewTxt ELSE txt
    /\ heap' = EmptyHeap
    /\ pos' = 0
    /\ fed' = FALSE
    /\ calls' = 0
    /\ ret' = "NONE"
    /\ last' = "new"
    /\ out' = NULL
    /\ held' = {}
    /\ allok' = TRUE

Next == Parse \/ Result \/ NewDoc

Spec == Init /\ [][Next]_vars
SpecScenario == InitScenario /\ [][Next]_vars
InitTokens == Start(TokenDocs)
SpecTokens == InitTokens /\ [][Next]_vars
InitSyntax == Start(SyntaxDocs)
SpecSyntax == InitSyntax /\ [][Next]_vars

\* ------------------------------------------- caller of the tree calls
\* One caller builds trees with the constructors and the Dict and Array
\* calls.  It passes nodes it has not released; names are "a" and "b";
\* the constructors are called while fewer than MaxTree nodes exist.
Names == {<<Ord("a")>>, <<Ord("b")>>}
Locs == (0 - 1)..3
Live(M) == {i \in 1..M.brk : M.n[i].live}

Called(op, a, b, name, loc) ==
    [op |-> op, a |-> a, b |-> b, name |-> name, loc |-> loc]

\* After a call that failed the caller starts again.
CanCall == ret \in {"NONE", "OK"} /\ calls < MaxOps

TreeStep(c, r) ==
    /\ calls' = calls + 1
    /\ heap' = r.M
    /\ ret' = r.err
    /\ out' = r.out
    /\ call' = c
    /\ used' = used \cup {c.op}
    /\ seen' = <<>>
    /\ UNCHANGED <<txt, docs, doc, pos, fed, last, held, allok>>

New ==
    /\ CanCall
    /\ heap.brk < MaxTree
    /\ \E kind \in {"DICT", "ARRAY", "STRING"} :
         \E r \in {IF kind = "DICT" THEN plist_dict_new(heap)
                   ELSE IF kind = "ARRAY" THEN plist_array_new(heap)
                   ELSE plist_string_new(heap, <<Ord("x")>>)} :
            TreeStep(Called("new", NULL, NULL, <<>>, 0),
                     Ret(r.M, r.err, r.id))

DictSet ==
    /\ CanCall
    /\ \E d \in Live(heap), v \in Live(heap), name \in Names :
       \E r \in {plist_dict_set(heap, d, name, v)} :
          TreeStep(Called("set", d, v, name, 0), Ret(r.M, r.err, NULL))

DictPop ==
    /\ CanCall
    /\ \E d \in Live(heap), name \in Names :
       TreeStep(Called("pop", d, NULL, name, 0), plist_dict_pop(heap, d, name))

DictDel ==
    /\ CanCall
    /\ \E d \in Live(heap), name \in Names :
       TreeStep(Called("del", d, NULL, name, 0), plist_dict_del(heap, d, name))

\* plist_dict_haskey: out is the bool it returns, 1 or 0
DictHas ==
    /\ CanCall
    /\ \E d \in Live(heap) \cup {NULL}, name \in Names :
       TreeStep(Called("has", d, NULL, name, 0),
                Ret(heap, "OK",
                    IF plist_dict_haskey(heap, d, name) THEN 1 ELSE 0))

\* PLIST_FOREACH over plist with a body that changes nothing
Foreach ==
    /\ CanCall
    /\ \E plist \in Live(heap) :
       \E r \in {PLIST_FOREACH(heap, plist)} :
          /\ calls' = calls + 1
          /\ ret' = (IF r.flt THEN "FAULT" ELSE "OK")
          /\ out' = NULL
          /\ call' = Called("foreach", plist, NULL, <<>>, 0)
          /\ used' = used \cup {"foreach"}
          /\ seen' = r.seq
          /\ UNCHANGED <<heap, txt, docs, doc, pos, fed, last, held, allok>>

DictUpdate ==
    /\ CanCall
    /\ \E d \in Live(heap), other \in Live(heap) :
       TreeStep(Called("update", d, other, <<>>, 0),
                plist_dict_update(heap, d, other))

ArrayAppend ==
    /\ CanCall
    /\ \E a \in Live(heap), v \in Live(heap) :
       \E r \in {plist_array_append(heap, a, v)} :
          TreeStep(Called("append", a, v, <<>>, 0), Ret(r.M, r.err, NULL))

ArrayInsert ==
    /\ CanCall
    /\ \E a \in Live(heap), v \in Live(heap), loc \in Locs :
       TreeStep(Called("insert", a, v, <<>>, loc),
                plist_array_insert(heap, a, loc, v))

ArrayPop ==
    /\ CanCall
    /\ \E a \in Live(heap), loc \in Locs :
       TreeStep(Called("apop", a, NULL, <<>>, loc),
                plist_array_pop(heap, a, loc))

ArrayDel ==
    /\ CanCall
    /\ \E a \in Live(heap), loc \in Locs :
       TreeStep(Called("adel", a, NULL, <<>>, loc),
                plist_array_del(heap, a, loc))

Copy ==
    /\ CanCall
    /\ \E src \in Live(heap) :
       TreeStep(Called("copy", src, NULL, <<>>, 0), plist_copy(heap, src))

Free ==
    /\ CanCall
    /\ \E p \in Live(heap) :
       TreeStep(Called("free", p, NULL, <<>>, 0),
                Ret(plist_free(heap, p), "OK", NULL))

\* a released cell is still linked in the list of a live Dict or Array, or
\* is the value of a live Key
Dangling(M) ==
    \E c \in Live(M) :
       \/ \E k \in Range(Kids(M, c)) : ~M.n[k].live
       \/ M.n[c].p_elem = "KEY" /\ M.n[c].pk_value # NULL
          /\ ~M.n[M.n[c].pk_value].live

\* A call made while a released cell is still linked reads released
\* memory.  Either the cell still shows its old contents (the calls above),
\* or the allocator has reused it and the call does not return.
UseAfterFree ==
    /\ CanCall
    /\ Dangling(heap)
    /\ TreeStep(Called("uaf", NULL, NULL, <<>>, 0),
                Ret([heap EXCEPT !.flt = TRUE], "OK", NULL))

\* the trees the caller starts from: nothing; a Dict 1 with the Key 3 "a"
\* holding the String 2, an empty Array 4 and a String 5; an Array 6 of
\* the Keys 3 and 5, both "a" and popped from the Dict 1
HeapDictArray ==
    LET m1 == plist_dict_new(EmptyHeap).M
        m2 == plist_string_new(m1, <<Ord("x")>>).M
        m3 == plist_dict_set(m2, 1, <<Ord("a")>>, 2).M
        m4 == plist_array_new(m3).M
    IN  plist_string_new(m4, <<Ord("x")>>).M
HeapKeyArray ==
    LET m1 == plist_dict_new(EmptyHeap).M
        m2 == plist_string_new(m1, <<Ord("x")>>).M
        m3 == plist_dict_pop(plist_dict_set(m2, 1, <<Ord("a")>>, 2).M,
                             1, <<Ord("a")>>).M
        m4 == plist_string_new(m3, <<Ord("x")>>).M
        m5 == plist_dict_pop(plist_dict_set(m4, 1, <<Ord("a")>>, 4).M,
                             1, <<Ord("a")>>).M
        m6 == plist_array_new(m5).M
    IN  plist_array_append(plist_array_append(m6, 6, 3).M, 6, 5).M
\* the trees the caller starts from, each with the calls that built it
TreeHeaps ==
    {[M |-> EmptyHeap, built |-> {}],
     [M |-> HeapDictArray, built |-> {"new", "set"}],
     [M |-> HeapKeyArray, built |-> {"new", "set", "pop", "append"}]}

\* the caller drops everything and starts again
Restart ==
    /\ call.op # "none"
    /\ \E s \in TreeHeaps : heap' = s.M /\ used' = s.built
    /\ calls' = 0
    /\ ret' = "NONE"
    /\ out' = NULL
    /\ call' = NoCall
    /\ seen' = <<>>
    /\ UNCHANGED <<txt, docs, doc, pos, fed, last, held, allok>>

NextTree ==
    \/ New \/ DictSet \/ DictPop \/ DictDel \/ DictHas \/ DictUpdate
    \/ ArrayAppend \/ ArrayInsert \/ ArrayPop \/ ArrayDel
    \/ Copy \/ Free \/ Foreach \/ UseAfterFree \/ Restart

InitTree ==
    /\ txt = NewTxt
    /\ \E s \in TreeHeaps : heap = s.M /\ used = s.built
    /\ docs = {DocTrue}
    /\ doc = DocTrue
    /\ pos = 0
    /\ fed = FALSE
    /\ calls = 0
    /\ ret = "NONE"
    /\ last = "new"
    /\ out = NULL
    /\ held = {}
    /\ allok = TRUE
    /\ call = NoCall
    /\ seen = <<>>
SpecTree == InitTree /\ [][NextTree]_vars

TypeOK ==
    /\ txt.pt_state \in {"SCAN", "DONE", "ERROR", "DATA", "DATE", "STRING",
                         "NUMBER", "DOUBLE", "TRUE", "FALSE"}
    /\ pos \in 0..Len(doc)
    /\ calls \in 0..(IF MaxCalls > MaxOps THEN MaxCalls ELSE MaxOps)
    /\ ret \in {"NONE", "OK", "EINVAL", "EACCES", "ENOMEM", "ENOENT",
                "EPERM", "ERANGE", "FAULT"}

\* ------------------------------------------------------------ properties
\* the bytes of doc handed to the parse call of a step
Chunk == SubSeq(doc, pos + 1, pos')

\* a fresh parser fed the whole of d in one call: <<T>> when the call
\* returns 0 with the parser in DONE and T the tree at pt_top, else <<>>
OneShot(d, oob, junk, stale) ==
    Bind(plist_txt_parse(Ctx(d, oob, junk, stale), NewTxt, EmptyHeap),
         LAMBDA r :
           IF r.ret = "OK" /\ r.txt.pt_state = "DONE"
           THEN <<TreeOf(r.M, r.txt.pt_top)>> ELSE <<>>)

\* what the one call can give, over all that the memory behind the
\* document, a fresh buffer and freed nodes may hold
OneShotOutcomes(d) ==
    {OneShot(d, oob, junk, stale) :
        oob \in OobSet(<<>>), junk \in JunkSet, stale \in BOOLEAN}

\* C1: chunking.  When a fresh parser accepts a document fed as one chunk
\* and produces the tree T, then feeding the same bytes in chunks, split
\* anywhere (also inside a literal, `tru` + `e`), gives success on every
\* parse call and ends with the parser holding a tree equal to T.
C1_ChunkingEquivalence ==
    (last = "parse" /\ pos = Len(doc)) =>
        \A T \in OneShotOutcomes(doc) :
            (T # <<>> /\ OneShotOutcomes(doc) = {T}) =>
                /\ allok
                /\ txt.pt_state = "DONE"
                /\ <<TreeOf(heap, txt.pt_top)>> = T

\* the scalar documents and the tree each stands for
ScalarDocs == {DocTrue, DocFalseUpper, DocReal}
ScalarTree(d) ==
    CASE d = DocTrue -> BooleanT(TRUE)
      [] d = DocFalseUpper -> BooleanT(FALSE)
      [] d = DocReal -> RealT(<<1, 15, 1>>)

\* C2: a complete scalar document fed together with its terminating NUL
\* in a single chunk to a fresh parser (the 5 bytes true\0) returns
\* success, and the following result returns success and yields the root
\* (for true\0 a Boolean holding true).
C2_ScalarInOneChunk ==
    (doc \in ScalarDocs /\ calls = 1 /\ pos = Len(doc)) =>
        /\ last = "parse" => (ret = "OK" /\ txt.pt_state = "DONE")
        /\ last = "result" =>
              /\ ret = "OK"
              /\ out # NULL
              /\ heap.n[out].live
              /\ TreeOf(heap, out) = ScalarTree(doc)

\* true\0 was fed in one chunk and result has handed out the root
C2_Witness ==
    /\ doc = DocTrue
    /\ calls = 1
    /\ pos = Len(doc)
    /\ last = "result"
    /\ ret = "OK"
    /\ out # NULL

\* C3: whenever a parse call reaches the end of its chunk in SCAN with a
\* completed root and no open container (depth zero), the parser is in
\* DONE when the call returns.
C3_EndOfChunkIsDone ==
    (/\ last = "parse"
     /\ fed
     /\ ret = "OK"
     /\ txt.pt_state \in {"SCAN", "DONE"}
     /\ txt.pt_top # NULL
     /\ txt.pt_depth = 0) => txt.pt_state = "DONE"

\* C4: once the parser is in DONE, a parse call with a non-empty chunk
\* returns an error, never success.
C4_ParseAfterDoneFails ==
    [][(txt.pt_state = "DONE" /\ last' = "parse" /\ fed') => ret' # "OK"]_vars

\* C5: sticky error.  Once a parse call on a document has returned an
\* error, the parser is in ERROR, and every later parse call with a
\* non-empty chunk returns an error too, whatever bytes it is fed, until
\* result is called.
C5_StickyError ==
    (last = "parse" /\ ~allok /\ ret # "FAULT") =>
        /\ txt.pt_state = "ERROR"
        /\ fed => ret # "OK"

\* (010,0x1F)\0 fails with EINVAL at 0x1F; a later call was fed more bytes
\* and returned the EACCES of the ERROR state
C5_Witness ==
    /\ doc = DocOctal
    /\ last = "parse"
    /\ fed
    /\ ~allok
    /\ ret = "EACCES"
    /\ txt.pt_state = "ERROR"

\* C6: result always leaves the parser in SCAN with depth 0, no root, no
\* open frame and no scanner buffer, which is the state of a fresh parser,
\* so that it parses the next document as a fresh parser would.  From
\* DONE it returns success and hands the root to the caller with nothing
\* released; from every other state it releases the whole partial tree and
\* returns not-found.
C6_ResultResets ==
    [][last' = "result" =>
        /\ txt'.pt_state = "SCAN"
        /\ txt'.pt_depth = 0
        /\ txt'.pt_top = NULL
        /\ txt'.pt_cur = NULL
        /\ txt'.pt_buf = <<>>
        /\ txt' = NewTxt
        /\ IF txt.pt_state = "DONE"
           THEN /\ ret' = "OK"
                /\ out' = txt.pt_top
                /\ out' # NULL
                /\ heap' = heap
                /\ \A k \in Subtree(heap, txt.pt_top) : heap'.n[k].live
           ELSE /\ ret' = "ENOENT"
                /\ out' = NULL
                /\ \A k \in Subtree(heap, txt.pt_top) : ~heap'.n[k].live]_vars

\* result was called on an unfinished document whose partial tree had
\* several nodes, and all of them are released
C6_Witness ==
    /\ last = "result"
    /\ ret = "ENOENT"
    /\ Cardinality(held) > 1
    /\ \A k \in held : ~heap.n[k].live
    /\ txt = NewTxt

\* a chunk whose first byte that is not a blank starts or ends a value
\* (it is not the NUL that ends the document)
RECURSIVE HasValueByte(_)
HasValueByte(chunk) ==
    /\ chunk # <<>>
    /\ IF isblank(Head(chunk)) THEN HasValueByte(Tail(chunk))
       ELSE Head(chunk) # Ord("NUL")

\* C7: after a complete root value has been produced with no open
\* container, any further byte that is not a blank puts the parser in
\* ERROR and the parse call returns an error; the root is never replaced
\* by a later value.
C7_RootNeverReplaced ==
    [][(/\ last' = "parse"
        /\ txt.pt_state = "SCAN"
        /\ txt.pt_top # NULL
        /\ txt.pt_depth = 0) =>
           /\ txt'.pt_top = txt.pt_top
           /\ HasValueByte(Chunk) =>
                 (ret' # "OK" /\ txt'.pt_state = "ERROR")]_vars

\* documents in which a value that cannot be a Key is completed while
\* the open frame is a Dict: a Data, an Integer, a String naming a Key the
\* Dict already has
BadKeyDocs == {DocDataKey, DocIntKey, DocDupKeyOpen}

\* C8: when a value is completed while the open frame is a Dict, a value
\* that is not a String, or a String equal to the name of a Key already in
\* the Dict, makes the parse call fail with the parser in ERROR, and a
\* following result returns not-found, whether the token was completed
\* inside one chunk or through a continuation state.
C8_BadKeyRejected ==
    (doc \in BadKeyDocs /\ pos = Len(doc)) =>
        /\ last = "parse" => (~allok /\ txt.pt_state = "ERROR")
        /\ last = "result" => ret = "ENOENT"

\* C9: when a value is completed while the open frame is a Key, the open
\* frame is still that Key node afterwards: it is live (not released) and
\* a child of the enclosing Dict, so the parser holds no reference to a
\* released node.
C9_KeyFrameLive ==
    (/\ last = "parse"
     /\ txt.pt_cur # NULL
     /\ heap.n[txt.pt_cur].p_elem = "KEY") =>
        /\ heap.n[txt.pt_cur].live
        /\ heap.n[txt.pt_cur].p_parent # NULL
        /\ txt.pt_cur \in Range(Kids(heap, heap.n[txt.pt_cur].p_parent))

\* the tree of { "name" : "Alice" ; "age" : 37 ; }
PersonT ==
    DictT(<<KeyT(<<"n", "a", "m", "e">>, StringT(<<"A", "l", "i", "c", "e">>)),
            KeyT(<<"a", "g", "e">>, IntegerT(37))>>)

\* C10: parsing { "name" : "Alice" ; "age" : 37 ; } followed by NUL
\* produces a root Dict with exactly two Keys, name holding the String
\* Alice and age holding the Integer 37, in that order, with key count 2.
C10_PersonParses ==
    (doc = DocPerson /\ pos = Len(doc)) =>
        /\ last = "parse" =>
              /\ allok
              /\ txt.pt_state = "DONE"
              /\ TreeOf(heap, txt.pt_top) = PersonT
        /\ last = "result" =>
              /\ ret = "OK"
              /\ out # NULL
              /\ TreeOf(heap, out) = PersonT

\* kids of an Array before a step are the first kids of it after the step
Prefix(s, t) == Len(s) <= Len(t) /\ SubSeq(t, 1, Len(s)) = s

\* the tree of ( 1 , 2 , -3 )
ArrayT123 == ArrayT(<<IntegerT(1), IntegerT(2), IntegerT(-3)>>)

\* C11: parsing ( 1 , 2 , -3 ) followed by NUL produces a root Array of
\* Integer 1, Integer 2, Integer -3 in input order with element count 3,
\* however the bytes are split into chunks; and a parse call only ever
\* adds to an Array at its tail: the elements it had before the call are
\* its first elements after it.
C11_ArrayAppends ==
    [][last' = "parse" =>
        /\ \A k \in 1..MaxNodes :
              (/\ heap.n[k].live
               /\ heap'.n[k].live
               /\ heap.n[k].p_elem = "ARRAY") =>
                  /\ Prefix(Kids(heap, k), Kids(heap', k))
                  /\ heap'.n[k].num = Len(Kids(heap', k))
        /\ (doc = DocArray /\ pos' = Len(doc)) =>
              /\ allok'
              /\ txt'.pt_state = "DONE"
              /\ TreeOf(heap', txt'.pt_top) = ArrayT123]_vars

\* ( 1 , 2 , -3 ) was fed in two chunks and the result is the Array
C11_Witness ==
    /\ doc = DocArray
    /\ calls = 2
    /\ last = "result"
    /\ ret = "OK"
    /\ out # NULL
    /\ TreeOf(heap, out) = ArrayT123

\* the Date of 2001-11-12 18:31:01 +0000 (tm_year counts from 1900, tm_mon
\* from 0)
DateT2001 == [Leaf("DATE") EXCEPT !.pd_tm = <<101, 10, 12, 18, 31, 1, 0>>]

\* C12: parsing <*D2001-11-12 18:31:01 +0000> followed by NUL succeeds and
\* produces the Date 2001-11-12 18:31:01 with offset 0: the text converted
\* is the body between <*D and >, without the D.
C12_DateParses ==
    (doc = DocDate /\ pos = Len(doc)) =>
        /\ last = "parse" =>
              /\ allok
              /\ txt.pt_state = "DONE"
              /\ TreeOf(heap, txt.pt_top) = DateT2001
        /\ last = "result" =>
              /\ ret = "OK"
              /\ out # NULL
              /\ TreeOf(heap, out) = DateT2001

\* the documents with escapes of the table and the String of each
EscapeDocs == {DocEscape, DocEscapeTable}
EscapeTree(d) ==
    IF d = DocEscape
    THEN StringT(<<"h", "e", "l", "l", "o", "LF", "w", "o", "r", "l", "d">>)
    ELSE StringT(<<"\\", "/", "\"", "BS", "TAB", "FF", "LF", "CR">>)

\* C13: inside a quoted string a backslash translates the next byte by
\* the table (\ / " to themselves, b t f n r to BS HT FF LF CR), so that
\* "hello\nworld" yields hello LF world; the String is the same wherever
\* the chunk boundaries fall, also between the backslash and the escaped
\* byte, where the escape flag is carried over to the next parse call.
C13_EscapeTable ==
    (doc \in EscapeDocs /\ last = "parse") =>
        /\ allok
        /\ (pos > 1 /\ pos < Len(doc) - 1 /\ doc[pos] = Ord("\\")
               /\ doc[pos - 1] # Ord("\\")) =>
              (txt.pt_state = "STRING" /\ txt.pt_escape)
        /\ pos = Len(doc) =>
              /\ txt.pt_state = "DONE"
              /\ TreeOf(heap, txt.pt_top) = EscapeTree(doc)

\* "hello\nworld" was cut between the backslash and the n
C13_Witness ==
    /\ doc = DocEscape
    /\ last = "parse"
    /\ pos = 7
    /\ doc[pos] = Ord("\\")
    /\ txt.pt_state = "STRING"
    /\ txt.pt_escape
    /\ SubSeq(txt.pt_buf, 1, txt.pt_bufoff) = B(<<"h", "e", "l", "l", "o">>)

\* C14: an escaped byte that is not in the table (the q of \q) is stored
\* in the String as that byte itself, at the place where it occurred:
\* "a\qb" yields the String aqb.
C14_OtherEscapeKept ==
    (doc = DocEscapeOther /\ pos = Len(doc) /\ last = "parse") =>
        /\ allok
        /\ txt.pt_state = "DONE"
        /\ TreeOf(heap, txt.pt_top) = StringT(<<"a", "q", "b">>)

\* the Data documents and the bytes of each: Hello, and 4A B0
DataDocs == {DocData, DocDataOdd}
DataTree(d) ==
    [Leaf("DATA") EXCEPT !.pd_data =
        IF d = DocData THEN B(<<"H", "e", "l", "l", "o">>) ELSE <<74, 176>>]

\* hex digits met so far in the Data token of d when pos bytes were fed
HexSeen(d, n) == Cardinality({i \in 2..n : isxdigit(d[i])})

\* C15: a Data token with n hex digits between < and > (upper or lower
\* case, blanks between them allowed) produces a Data node of n/2 + n%2
\* bytes, the digit pairs assembled high nibble first, a trailing odd
\* digit being the high nibble of one more byte: <48 65 6c 6c 6f> gives
\* Hello.  The digit count and the half-assembled byte are kept across
\* chunk boundaries, so every split of the token gives the same bytes.
C15_DataBytes ==
    (doc \in DataDocs /\ last = "parse") =>
        /\ allok
        /\ (pos > 0 /\ pos < Len(doc) - 1) =>
              /\ txt.pt_state = "DATA"
              /\ txt.pt_datacnt = HexSeen(doc, pos)
              /\ txt.pt_bufoff = txt.pt_datacnt \div 2
        /\ pos = Len(doc) =>
              /\ txt.pt_state = "DONE"
              /\ TreeOf(heap, txt.pt_top) = DataTree(doc)

\* <48 65 6c 6c 6f> was cut after the 4 of 48: the parser waits in DATA
\* with one digit counted and the high nibble in the buffer
C15_Witness ==
    /\ doc = DocData
    /\ last = "parse"
    /\ pos = 2
    /\ ret = "OK"
    /\ txt.pt_state = "DATA"
    /\ txt.pt_datacnt = 1
    /\ txt.pt_bufoff = 0
    /\ txt.pt_buf[1] = 64

\* C16: between tokens a newline is skipped like a space or a tab: the
\* document ( 1 , 2 , -3 ) written with newlines in place of the spaces
\* parses to the same tree as with spaces.
C16_NewlineIsBlank ==
    (doc = DocArrayLines /\ pos = Len(doc) /\ last = "parse") =>
        /\ allok
        /\ txt.pt_state = "DONE"
        /\ TreeOf(heap, txt.pt_top) = ArrayT123

\* the integer documents and the value of the literal of each
IntDocs == {DocBig, DocIntMin}
IntValue(d) ==
    IF d = DocBig THEN [neg |-> FALSE, mag |-> <<0, 0, 1, 0>>]
    ELSE [neg |-> TRUE, mag |-> <<0, 32768, 0, 0>>]

\* the value of an int field read as a 64 bit integer
LongOf(v) ==
    IF v >= 0 THEN [neg |-> FALSE, mag |-> <<v % 65536, v \div 65536, 0, 0>>]
    ELSE [neg |-> TRUE,
          mag |-> <<(((-(v + 1)) % 65536) + 1) % 65536,
                    ((-(v + 1)) \div 65536)
                    + (IF ((-(v + 1)) % 65536) = 65535 THEN 1 ELSE 0),
                    0, 0>>]

\* C17: an integer literal whose value lies in the signed 64 bit range
\* parses to an Integer node holding exactly that value, without
\* truncation or wrap-around beyond 32 bits: 4294967296 yields an Integer
\* holding 4294967296.
C17_Integer64 ==
    (doc \in IntDocs /\ pos = Len(doc) /\ last = "parse") =>
        /\ allok
        /\ txt.pt_state = "DONE"
        /\ heap.n[txt.pt_top].p_elem = "INTEGER"
        /\ LongOf(heap.n[txt.pt_top].pi_int) = IntValue(doc)

\* C18: after any sequence of tree calls, the count of every Dict and of
\* every Array equals the number of nodes linked in its list (what
\* plist_first and plist_next walk through), and every node linked in a
\* Dict is a Key.
C18_CountIsLinked ==
    \A c \in Live(heap) :
       heap.n[c].p_elem \in {"DICT", "ARRAY"} =>
          /\ heap.n[c].num = Len(Kids(heap, c))
          /\ heap.n[c].p_elem = "DICT" =>
                \A k \in Range(Kids(heap, c)) : heap.n[k].p_elem = "KEY"

\* C19: after any sequence of constructor, dict set and dict update calls
\* (update from a Dict, a Key or an Array of Keys), no Dict has two Keys of
\* the same name linked in its list.
C19_NamesUnique ==
    used \subseteq {"new", "set", "update"} =>
       \A d \in Live(heap) :
          heap.n[d].p_elem = "DICT" =>
             \A i, j \in 1..Len(Kids(heap, d)) :
                i # j => heap.n[Kids(heap, d)[i]].str
                         # heap.n[Kids(heap, d)[j]].str

\* every live Key is linked under a Dict, and every live node that has a
\* parent has a Dict (if it is a Key), the Key that holds it as its value,
\* or an Array
KeysInDicts(M) ==
    \A x \in Live(M) :
       /\ M.n[x].p_elem = "KEY" =>
             /\ M.n[x].p_parent # NULL
             /\ M.n[M.n[x].p_parent].p_elem = "DICT"
       /\ M.n[x].p_parent # NULL =>
             \/ M.n[M.n[x].p_parent].p_elem = "ARRAY"
             \/ /\ M.n[M.n[x].p_parent].p_elem = "DICT"
                /\ M.n[x].p_elem = "KEY"
             \/ /\ M.n[M.n[x].p_parent].p_elem = "KEY"
                /\ M.n[M.n[x].p_parent].pk_value = x

\* C20: a Key only ever exists as a direct child of a Dict: no tree call
\* hands out a parentless Key or makes a Key an element of an Array or the
\* value of a Key, and every parent is a Dict (of a Key), a Key (of its
\* value) or an Array.  Stated of every call made on a tree of which this is
\* true.
C20_KeysStayInDicts ==
    [][(KeysInDicts(heap) /\ call'.op # "none") => KeysInDicts(heap')]_vars

\* the nodes that the container c holds: the cells of its list, or the
\* value of a Key
Held(M, c) ==
    IF M.n[c].p_elem \in {"DICT", "ARRAY"} THEN Range(Kids(M, c))
    ELSE IF M.n[c].p_elem = "KEY" /\ M.n[c].pk_value # NULL
    THEN {M.n[c].pk_value}
    ELSE {}

\* C21: parent links and child links agree: every node linked in a Dict's
\* key list, an Array's element list or a Key's value slot has that
\* container as its parent, and every node with a parent is linked in that
\* parent.
C21_ParentIsHolder ==
    \A c \in Live(heap) :
       /\ \A k \in Held(heap, c) : heap.n[k].p_parent = c
       /\ heap.n[c].p_parent # NULL => c \in Held(heap, heap.n[c].p_parent)

\* the nodes met from id along p_parent, at most k of them
RECURSIVE Ancestors(_, _, _)
Ancestors(M, id, k) ==
    IF id = NULL \/ k = 0 \/ M.n[id].p_parent = NULL THEN {}
    ELSE {M.n[id].p_parent} \cup Ancestors(M, M.n[id].p_parent, k - 1)

\* no node is its own ancestor
Acyclic(M) == \A x \in Live(M) : x \notin Ancestors(M, x, MaxNodes)

\* C22: parent links stay cycle-free: a set, append or insert call on a
\* tree where no node is its own ancestor leaves it so, and when it would
\* attach a parentless container into itself or into one of its own
\* descendants it is rejected and leaves the tree unchanged.
C22_NoCycle ==
    [][(call'.op \in {"set", "append", "insert"} /\ Acyclic(heap)) =>
          /\ Acyclic(heap')
          /\ (/\ heap.n[call'.b].p_parent = NULL
              /\ call'.a \in Subtree(heap, call'.b))
                => ret' \notin {"OK", "FAULT"} /\ heap' = heap]_vars

\* the node v is attached: it has a parent, or a container holds it
Attached(M, v) ==
    \/ M.n[v].p_parent # NULL
    \/ \E c \in Live(M) : v \in Held(M, c)

\* the call c is made on a container of the kind it expects, and an
\* insert names a place of the Array
TargetFits(M, c) ==
    /\ c.op \in {"set", "append", "insert"}
    /\ M.n[c.a].p_elem = (IF c.op = "set" THEN "DICT" ELSE "ARRAY")
    /\ c.op = "insert" => c.loc >= 0 /\ c.loc <= M.n[c.a].num

\* C23: a set, append or insert call whose value is already attached
\* returns EPERM and changes nothing: the value stays where it is and the
\* target keeps its children, order and count.
C23_AttachedIsRefused ==
    [][(TargetFits(heap, call') /\ Attached(heap, call'.b)) =>
          ret' = "EPERM" /\ heap' = heap]_vars

\* the nodes held below id, directly or through at most k containers
RECURSIVE Below(_, _, _)
Below(M, id, k) ==
    IF k = 0 THEN {}
    ELSE Held(M, id) \cup UNION {Below(M, c, k - 1) : c \in Held(M, id)}

\* the Keys in the list of the Dict d that carry the name
Named(M, d, name) == {k \in Range(Kids(M, d)) : M.n[k].str = name}
\* the list of the Dict d without the Keys that carry the name
Others(M, d, name) ==
    SelectSeq(Kids(M, d), LAMBDA k : M.n[k].str # name)

\* C24: a successful set on a Dict that has a Key of the name releases the
\* old Key and its whole value subtree; afterwards the Dict has exactly one
\* Key of the name, it holds the value and is last, the count is
\* unchanged, the other Keys keep their order and haskey is true.
C24_SetReplaces ==
    [][(/\ call'.op = "set" /\ ret' = "OK"
        /\ heap.n[call'.a].p_elem = "DICT"
        /\ Named(heap, call'.a, call'.name) # {}) =>
          /\ \A k \in Named(heap, call'.a, call'.name) :
                \A x \in {k} \cup Below(heap, k, MaxNodes) :
                   x # call'.b => ~heap'.n[x].live
          /\ Cardinality(Named(heap', call'.a, call'.name)) = 1
          /\ Kids(heap', call'.a) # <<>>
          /\ heap'.n[Kids(heap', call'.a)[Len(Kids(heap', call'.a))]].str
                = call'.name
          /\ heap'.n[Kids(heap', call'.a)[Len(Kids(heap', call'.a))]].pk_value
                = call'.b
          /\ heap'.n[call'.a].num = heap.n[call'.a].num
          /\ Others(heap', call'.a, call'.name)
                = Others(heap, call'.a, call'.name)
          /\ plist_dict_haskey(heap', call'.a, call'.name)]_vars

\* C25: pop of a name the Dict has detaches the Key, hands out the Key's
\* value (not the Key) as a parentless node and releases the Key; pop of a
\* name the Dict does not have returns ENOENT and changes nothing.
C25_PopGivesValue ==
    [][(call'.op = "pop" /\ heap.n[call'.a].p_elem = "DICT") =>
          IF Named(heap, call'.a, call'.name) = {}
          THEN ret' = "ENOENT" /\ heap' = heap
          ELSE /\ ret' = "OK"
               /\ out' = heap.n[FindKey(heap, call'.a, call'.name)].pk_value
               /\ heap'.n[out'].p_parent = NULL
               /\ ~heap'.n[FindKey(heap, call'.a, call'.name)].live
               /\ FindKey(heap, call'.a, call'.name)
                     \notin Range(Kids(heap', call'.a))]_vars

\* C26: del of a name the Dict does not have fails with ENOENT and changes
\* nothing; del of a name it has removes the Key and releases the Key and
\* its value, after which haskey of the name is false.
C26_DelLikePop ==
    [][(call'.op = "del" /\ heap.n[call'.a].p_elem = "DICT") =>
          IF Named(heap, call'.a, call'.name) = {}
          THEN ret' = "ENOENT" /\ heap' = heap
          ELSE /\ ret' = "OK"
               /\ \A x \in {FindKey(heap, call'.a, call'.name)}
                           \cup Below(heap, FindKey(heap, call'.a, call'.name),
                                      MaxNodes) : ~heap'.n[x].live
               /\ ~plist_dict_haskey(heap', call'.a, call'.name)]_vars

\* C27: haskey returns true only when its first argument is a Dict that
\* has a Key of exactly the name, and false in all other cases: a NULL
\* argument, a name the Dict does not have, a node of any other kind.
C27_HasOnlyForDictKey ==
    [][call'.op = "has" =>
          out' = (IF /\ call'.a # NULL
                     /\ heap.n[call'.a].p_elem = "DICT"
                     /\ Named(heap, call'.a, call'.name) # {}
                  THEN 1 ELSE 0)]_vars

\* the Keys that other contributes to an update, in order
Contributed(M, other) ==
    IF M.n[other].p_elem = "KEY" THEN <<other>> ELSE Kids(M, other)

\* other is of a shape that update accepts: a Dict, a Key, or an Array
\* whose elements are all Keys
UpdateShape(M, other) ==
    \/ M.n[other].p_elem \in {"DICT", "KEY"}
    \/ /\ M.n[other].p_elem = "ARRAY"
       /\ \A k \in Range(Kids(M, other)) : M.n[k].p_elem = "KEY"

\* C28: update of a Dict from a Dict, a Key or an Array of Keys succeeds
\* (memory permitting); afterwards, for every contributed Key, the Dict has
\* exactly one Key of that name and a Key of that name holds a copy equal
\* to the contributed value, the copies are last in the order contributed,
\* the Keys of other names are kept and other is unchanged.
C28_UpdateMerges ==
    [][(/\ call'.op = "update" /\ ret' # "ENOMEM"
        /\ Acyclic(heap)
        /\ heap.n[call'.a].p_elem = "DICT"
        /\ UpdateShape(heap, call'.b)) =>
          /\ ret' = "OK"
          /\ \A c \in Range(Contributed(heap, call'.b)) :
                /\ Cardinality(Named(heap', call'.a, heap.n[c].str)) = 1
                /\ \E k \in Named(heap', call'.a, heap.n[c].str) :
                      /\ k # c
                      /\ heap'.n[k].pk_value # NULL
                      /\ \E c2 \in Range(Contributed(heap, call'.b)) :
                            /\ heap.n[c2].str = heap.n[c].str
                            /\ TreeOf(heap', heap'.n[k].pk_value)
                                  = TreeOf(heap, heap.n[c2].pk_value)
          /\ \A k \in Range(Kids(heap, call'.a)) :
                (\A c \in Range(Contributed(heap, call'.b)) :
                    heap.n[c].str # heap.n[k].str)
                   => k \in Range(Kids(heap', call'.a))
          /\ (\A i, j \in 1..Len(Contributed(heap, call'.b)) :
                 i # j => heap.n[Contributed(heap, call'.b)[i]].str
                             # heap.n[Contributed(heap, call'.b)[j]].str)
                => /\ Len(Kids(heap', call'.a))
                         >= Len(Contributed(heap, call'.b))
                   /\ \A i \in 1..Len(Contributed(heap, call'.b)) :
                         heap'.n[Kids(heap', call'.a)[
                                    Len(Kids(heap', call'.a))
                                    - Len(Contributed(heap, call'.b)) + i]].str
                            = heap.n[Contributed(heap, call'.b)[i]].str
          /\ TreeOf(heap', call'.b) = TreeOf(heap, call'.b)
          /\ heap'.n[call'.b].live]_vars

\* C29: update is transactional: when other is of a shape update does not
\* accept (another kind, or an Array with an element that is not a Key at
\* any place), or when update returns an error for any reason, the call
\* returns an error code, the Dict has its Keys, values, order and count as
\* before, and no staged copy is left allocated.
C29_UpdateTransactional ==
    [][(/\ call'.op = "update"
        /\ Acyclic(heap)
        /\ heap.n[call'.a].p_elem = "DICT"
        /\ \/ ~UpdateShape(heap, call'.b)
           \/ ret' \notin {"OK", "FAULT"}) =>
          /\ ret' \notin {"OK", "FAULT"}
          /\ Live(heap') = Live(heap)
          /\ Kids(heap', call'.a) = Kids(heap, call'.a)
          /\ TreeOf(heap', call'.a) = TreeOf(heap, call'.a)]_vars

\* the sequence s with x put at index i (from 0), and s without index i
InsertAt(s, i, x) == SubSeq(s, 1, i) \o <<x>> \o SubSeq(s, i + 1, Len(s))
RemoveAt(s, i) == SubSeq(s, 1, i) \o SubSeq(s, i + 2, Len(s))

\* C30: array index bounds: insert of an unattached value succeeds exactly
\* for 0 <= loc <= count and puts the value at index loc, the later
\* elements moving up by one; pop and del succeed exactly for
\* 0 <= loc < count and remove the element at index loc; any other loc
\* returns ERANGE and changes nothing.
C30_ArrayBounds ==
    [][(/\ call'.op \in {"insert", "apop", "adel"}
        /\ heap.n[call'.a].p_elem = "ARRAY"
        /\ call'.op = "insert" => ~Attached(heap, call'.b)) =>
          IF \/ call'.loc < 0
             \/ call'.loc > heap.n[call'.a].num
             \/ call'.op # "insert" /\ call'.loc = heap.n[call'.a].num
          THEN ret' = "ERANGE" /\ heap' = heap
          ELSE /\ ret' = "OK"
               /\ heap.n[call'.a].num = Len(Kids(heap, call'.a))
               /\ IF call'.op = "insert"
                  THEN Kids(heap', call'.a)
                          = InsertAt(Kids(heap, call'.a), call'.loc, call'.b)
                  ELSE /\ Kids(heap', call'.a)
                             = RemoveAt(Kids(heap, call'.a), call'.loc)
                       /\ call'.op = "apop" =>
                             out' = Kids(heap, call'.a)[call'.loc + 1]]_vars

\* the children of c by their parent reference
ChildrenOf(M, c) == {x \in Live(M) : M.n[x].p_parent = c}

\* C31: PLIST_FOREACH over a Dict or an Array ends and hands out every
\* child exactly once, as many as the count, every one of a Dict a Key;
\* the order is the order of insertion: a successful append, set or
\* insert at the count lengthens what the loop hands out by the new child
\* at the tail.
C31_ForeachInOrder ==
    [][/\ (call'.op = "foreach"
             /\ heap.n[call'.a].p_elem \in {"DICT", "ARRAY"}) =>
             /\ ret' = "OK"
             /\ Len(seen') = heap.n[call'.a].num
             /\ ChildrenOf(heap, call'.a) \subseteq Range(seen')
             /\ \A i, j \in 1..Len(seen') : i # j => seen'[i] # seen'[j]
             /\ heap.n[call'.a].p_elem = "DICT" =>
                   \A i \in 1..Len(seen') : heap.n[seen'[i]].p_elem = "KEY"
       /\ (/\ call'.op \in {"append", "set"} /\ ret' = "OK"
           /\ ~PLIST_FOREACH(heap, call'.a).flt
           /\ call'.op = "set" => Named(heap, call'.a, call'.name) = {}) =>
             /\ ~PLIST_FOREACH(heap', call'.a).flt
             /\ Len(PLIST_FOREACH(heap', call'.a).seq)
                   = Len(PLIST_FOREACH(heap, call'.a).seq) + 1
             /\ SubSeq(PLIST_FOREACH(heap', call'.a).seq, 1,
                       Len(PLIST_FOREACH(heap, call'.a).seq))
                   = PLIST_FOREACH(heap, call'.a).seq
             /\ call'.op = "append" =>
                   PLIST_FOREACH(heap', call'.a).seq[
                      Len(PLIST_FOREACH(heap', call'.a).seq)] = call'.b]_vars

\* the call copied the tree at src: a parentless tree equal to it in kinds,
\* names, payloads, order and counts, of new nodes only, every node that
\* existed left as it was
CopiedWell(M, M2, src, dst) ==
    /\ dst # NULL
    /\ M2.n[dst].p_parent = NULL
    /\ TreeOf(M2, dst) = TreeOf(M, src)
    /\ \A x \in {dst} \cup Below(M2, dst, MaxNodes) : x > M.brk /\ M2.n[x].live
    /\ \A i \in 1..M.brk : M2.n[i] = M.n[i]

\* the calls that construct and attach, and those that change nothing
Building == {"new", "set", "append", "insert", "has", "foreach"}

\* C32: copy of a tree built with the constructors and the attach calls
\* (a root, no node its own ancestor) succeeds, memory permitting, with a
\* parentless tree equal to it in kinds, names, payloads, order and counts,
\* made of new nodes only, the tree itself unchanged; the copy can then be
\* attached, also inside the tree it was copied from.
C32_CopyEqualDisjoint ==
    [][/\ (/\ call'.op = "copy" /\ ret' # "ENOMEM"
           /\ used \subseteq Building
           /\ ~Attached(heap, call'.a)
           /\ Acyclic(heap)) =>
             /\ ret' = "OK"
             /\ CopiedWell(heap, heap', call'.a, out')
       /\ (/\ call.op = "copy" /\ ret = "OK"
           /\ used \subseteq Building \cup {"copy"}
           /\ TargetFits(heap, call') /\ call'.b = out
           /\ ret' # "ENOMEM") =>
             /\ ret' = "OK"
             /\ Attached(heap', out)]_vars
\* an Array of a String and a Dict with one Key was copied
C32_Witness ==
    /\ call.op = "copy" /\ ret = "OK"
    /\ used \subseteq Building \cup {"copy"}
    /\ heap.n[call.a].p_elem = "ARRAY" /\ heap.n[call.a].num = 2
    /\ Cardinality(Below(heap, call.a, MaxNodes)) = 4
    /\ TreeOf(heap, out) = TreeOf(heap, call.a)
\* the copy was attached inside the tree it was copied from
C32_WitnessAttach ==
    /\ call.op \in {"set", "append", "insert"} /\ ret = "OK"
    /\ "copy" \in used /\ used \subseteq Building \cup {"copy"}
    /\ call.b > 5
    /\ heap.n[call.b].p_elem = "DICT"
    /\ call.a \in {1, 4}

\* C33: plist_free of a node of a tree (no node its own ancestor) ends
\* and releases the node and every descendant, each once, and nothing else;
\* no live Dict, Array or Key holds a released node afterwards; a Dict or
\* Array that was the parent counts one less and lists the remaining
\* children in their order.
C33_FreeReleasesSubtree ==
    [][(call'.op = "free" /\ Acyclic(heap)) =>
          /\ ret' = "OK"
          /\ \A c \in Live(heap') : Held(heap', c) \subseteq Live(heap')
          /\ Live(heap) \ Live(heap')
                = {call'.a} \cup Below(heap, call'.a, MaxNodes)
          /\ (/\ heap.n[call'.a].p_parent # NULL
              /\ heap.n[heap.n[call'.a].p_parent].p_elem \in {"DICT", "ARRAY"})
               => /\ heap'.n[heap.n[call'.a].p_parent].num
                        = heap.n[heap.n[call'.a].p_parent].num - 1
                  /\ Kids(heap', heap.n[call'.a].p_parent)
                        = SelectSeq(Kids(heap, heap.n[call'.a].p_parent),
                                    LAMBDA x : x # call'.a)
                  /\ Len(Kids(heap', heap.n[call'.a].p_parent)) + 1
                        = Len(Kids(heap, heap.n[call'.a].p_parent))]_vars

\* C34: plist_copy of a node that is attached and has a later sibling in
\* its parent returns, memory permitting, a parentless copy of the node and
\* of what is below it and of nothing else: it does not go on into the
\* sibling and does not fail on the parent that the copy does not have.
C34_CopyStopsAtSource ==
    [][(/\ call'.op = "copy" /\ Acyclic(heap)
        /\ heap.n[call'.a].p_parent # NULL
        /\ heap.n[call'.a].tqe_next # NULL
        /\ ret' # "ENOMEM") =>
          /\ ret' = "OK"
          /\ CopiedWell(heap, heap', call'.a, out')]_vars

\* the Keys linked in a Dict hold a value
KeysHoldValues(M) ==
    \A d \in Live(M) :
       M.n[d].p_elem = "DICT" =>
          \A k \in Range(Kids(M, d)) :
             M.n[k].p_elem = "KEY" => M.n[k].pk_value # NULL
\* C35: every Key linked in a Dict holds a value: after every tree call
\* that returned, plist_free of a Key's value among them, and in every
\* tree that plist_txt_result hands out, no Key has an empty value slot.
C35_KeysHoldValues ==
    (last # "parse" /\ ret # "FAULT") => KeysHoldValues(heap)

\* the documents whose separators the grammar does not allow
BadSeparators ==
    {DocKeyNoValue, DocAdjacent, DocDoubleComma, DocLeadComma, DocTrailComma}

\* C36: the separators of the grammar are enforced: a document in which a
\* key is followed directly by `;`, or in which two values of an Array stand
\* side by side or a comma leads, trails or is doubled, is an error: the
\* caller that fed all of it gets no tree from plist_txt_result.
C36_SeparatorsEnforced ==
    (last = "result" /\ doc \in BadSeparators /\ pos = Len(doc))
       => ret # "OK"

\* the kind of the innermost open frame: the node at pt_cur
Frame(t, M) == IF t.pt_cur = NULL THEN "NONE" ELSE M.n[t.pt_cur].p_elem
\* the closer or separator b has its place in the innermost open frame
FitsFrame(b, t, M) ==
    CASE b \in {Ord(")"), Ord(",")} -> Frame(t, M) = "ARRAY"
      [] b \in {Ord(";"), Ord(":")} -> Frame(t, M) = "KEY"
      [] b = Ord("}") ->
           \/ Frame(t, M) = "DICT"
           \/ /\ Frame(t, M) = "KEY"
              /\ M.n[t.pt_cur].p_parent # NULL
              /\ M.n[M.n[t.pt_cur].p_parent].p_elem = "DICT"
      [] OTHER -> TRUE

RECURSIVE FrameCount(_, _, _)
FrameCount(M, id, k) ==
    IF id = NULL \/ k = 0 THEN 0
    ELSE (IF M.n[id].p_elem \in {"DICT", "ARRAY", "KEY"} THEN 1 ELSE 0)
         + FrameCount(M, M.n[id].p_parent, k - 1)

\* C38: between the calls the depth counter is not negative and, where
\* pt_cur is NULL or a node of the tree, equals the number of open frames
\* on the parent chain from pt_cur to the root, so it is 0 exactly when no
\* container is open; in DONE the depth is 0 and the root is not NULL.
C38_DepthCountsFrames ==
    ret # "FAULT" =>
       /\ txt.pt_depth >= 0
       /\ (txt.pt_cur = NULL \/ heap.n[txt.pt_cur].live) =>
             txt.pt_depth = FrameCount(heap, txt.pt_cur, MaxNodes)
       /\ txt.pt_state = "DONE" => txt.pt_depth = 0 /\ txt.pt_top # NULL
\* the parser stands in an Array inside a Key inside a Dict
C38_Witness ==
    /\ last = "parse" /\ ret = "OK" /\ txt.pt_state = "SCAN"
    /\ txt.pt_depth = 3
    /\ Frame(txt, heap) = "ARRAY"
    /\ heap.n[txt.pt_cur].live
    /\ FrameCount(heap, txt.pt_cur, MaxNodes) = 3

\* C39: a parse call reads no byte at an index >= sz: whatever lies behind
\* the chunk, the call on the same parser with the same sz bytes returns
\* the same value and leaves the same parser state and tree.
C39_OnlyTheChunkIsRead ==
    (last # "result" /\ ret # "FAULT") =>
       \A n \in 0..(Len(doc) - pos), junk \in JunkSet, stale \in BOOLEAN :
          \A o1, o2 \in OobSet(SubSeq(doc, pos + n + 1, Len(doc))) :
             plist_txt_parse(Ctx(SubSeq(doc, pos + 1, pos + n),
                                 o1, junk, stale), txt, heap)
             = plist_txt_parse(Ctx(SubSeq(doc, pos + 1, pos + n),
                                   o2, junk, stale), txt, heap)

\* the chunk is the beginning, and not the whole, of the literal
BeginsLiteral(chunk, lit) ==
    /\ Len(chunk) >= 1 /\ Len(chunk) < Len(lit)
    /\ \A i \in 1..Len(chunk) : tolower(chunk[i]) = lit[i]

\* what C40 asks of the call r made with the chunk on the parser t
ReturnsWell(t, chunk, r) ==
    /\ r.ret # "FAULT"
    /\ r.cp = Len(chunk) + 1 \/ r.txt.pt_state \in {"DONE", "ERROR"}
    /\ (/\ t.pt_state = "SCAN"
        /\ BeginsLiteral(chunk, TrueLit) \/ BeginsLiteral(chunk, FalseLit))
         => /\ r.ret = "OK"
            /\ r.txt.pt_state \in {"TRUE", "FALSE"}

\* C40: every parse call returns, with the chunk consumed to its end or
\* the parser in DONE or ERROR; a chunk that ends in the middle of a token
\* (here: of true or false) returns 0 with the part of the token saved.
C40_ParseReturns ==
    (last # "result" /\ ret # "FAULT") =>
       \A n \in 0..(Len(doc) - pos), junk \in JunkSet, stale \in BOOLEAN :
          \A oob \in OobSet(SubSeq(doc, pos + n + 1, Len(doc))) :
             ReturnsWell(txt, SubSeq(doc, pos + 1, pos + n),
                         plist_txt_parse(Ctx(SubSeq(doc, pos + 1, pos + n),
                                             oob, junk, stale), txt, heap))
====
